---- MODULE Spec2Model ----
(***************************************************************************)
(* Model of the AutoInvestMCP trading core: the strategy backtest          *)
(* simulators (StrategyBase.backtest, GridStrategy.backtest), the live     *)
(* risk check of TradeDecision with the TradeExecutor bookkeeping, and     *)
(* the MACD indicator.  Floating point values are modelled as exact        *)
(* rationals <<numerator, denominator>> in lowest terms.                   *)
(***************************************************************************)
EXTENDS Integers, Sequences, FiniteSets, TLC

(***************************************************************************)
(* Exact rational arithmetic standing for Python float arithmetic.         *)
(***************************************************************************)
RECURSIVE GCD(_, _)
GCD(a, b) ==
    IF b = 0 THEN a ELSE GCD(b, a % b)

Abs(x) ==
    IF x < 0 THEN -x ELSE x

Norm(n, d) ==
    LET s == IF d < 0 THEN -1 ELSE 1
        g == GCD(Abs(n), Abs(d))
    IN  <<(s * n) \div g, (s * d) \div g>>

R(k) ==
    <<k, 1>>

Frac(n, d) ==
    Norm(n, d)

RAdd(x, y) ==
    Norm(x[1] * y[2] + y[1] * x[2], x[2] * y[2])

RSub(x, y) ==
    Norm(x[1] * y[2] - y[1] * x[2], x[2] * y[2])

RMul(x, y) ==
    Norm(x[1] * y[1], x[2] * y[2])

RDiv(x, y) ==
    Norm(x[1] * y[2], x[2] * y[1])

RLe(x, y) ==
    x[1] * y[2] <= y[1] * x[2]

RLt(x, y) ==
    x[1] * y[2] < y[1] * x[2]

RGe(x, y) ==
    RLe(y, x)

RGt(x, y) ==
    RLt(y, x)

Zero ==
    R(0)

One ==
    R(1)

\* s.iloc[i] of a column held as a sequence: Python indexes bars from 0.
At(s, i) ==
    s[i + 1]

\* data[col].iloc[i] = v
SetAt(s, i, v) ==
    [s EXCEPT ![i + 1] = v]

(***************************************************************************)
(* Bounds of the model and the input sets drawn from.                      *)
(***************************************************************************)
MaxBars ==
    4

MaxGridBars ==
    3

PriceSet ==
    {10, 11}

GridPriceSet ==
    {10, 11, 12}

SignalSet ==
    {-1, 0, 1}

CapitalSet ==
    {0, 100}

PositionSizeSet ==
    {Frac(1, 2), One}

CommissionSet ==
    {Zero, Frac(1, 10)}

RECURSIVE SeqsOfLen(_, _)
SeqsOfLen(S, n) ==
    IF n = 0 THEN {<<>>}
    ELSE {Append(s, x) : s \in SeqsOfLen(S, n - 1), x \in S}

SeqsUpTo(S, n) ==
    UNION {SeqsOfLen(S, k) : k \in 0..n}

VARIABLES
    kind,            \* which simulator runs: "base" or "grid"; "none" when no backtest runs
    close,           \* data['close'], one integer price per bar
    signal,          \* data['signal'], one value per bar
    initial_capital, \* backtest argument
    position_size,   \* backtest argument (base)
    commission,      \* backtest argument
    bt_pc,           \* "construct", "start", "loop", "done", "raised", "config_error", "idle"
    bt_i,            \* loop variable i of the bar loop
    capital,         \* local capital
    position,        \* local position (base)
    entry_price,     \* local entry_price (base)
    trades,          \* local trades list
    cap_col,         \* data['capital']
    pos_col,         \* data['position'] (base) / data['position_value'] (grid)
    equity_col,      \* data['equity']
    final_equity,    \* result['final_equity']
    grid_args,       \* the grid strategy's params: upper_price, lower_price, grid_num, ...
    grid_prices,     \* GridStrategy.grid_prices
    shares_per_grid, \* backtest argument (grid)
    grid_position,   \* data['grid_position']
    positions,       \* local positions dict of the grid backtest: grid index -> quantity
    ex_positions,    \* TradeExecutor.positions: symbol -> quantity
    ex_trades,       \* TradeExecutor.trades
    max_position_size, \* TradeDecision.risk_params['max_position_size']
    td_pc,           \* "idle", or "deciding" inside make_decision's symbol loop
    td_symbols,      \* symbols make_decision still has to evaluate
    account_info,    \* the account_info local of make_decision
    decisions,       \* the decisions list built and returned by make_decision
    results,         \* the list returned by the last execute_decisions
    macd_args,       \* MACD(fast_period, slow_period, signal_period)
    df_in,           \* the caller's DataFrame: column name -> values, one per bar
    df_calc,         \* the frame returned by MACD.calculate
    df_sig,          \* the frame returned by MACD.get_signal
    ind_pc,          \* "ready", "calculated", "signalled"; "idle" when no indicator runs
    run,             \* 1 during the first backtest call on the instance, 2 during the second
    first_run,       \* what the first backtest call produced; <<>> until the second starts
    st_kind,         \* strategy variant of the signal pipeline; "none" when it does not run
    st_params,       \* the strategy's params dict
    st_in,           \* the caller's OHLCV frame: column name -> values, one per bar
    st_out,          \* the frame the last pipeline step returned
    st_pc            \* "created", "prepared", "signalled", "raised"; "idle"

btVars ==
    <<kind, close, signal, initial_capital, position_size, commission, bt_pc, bt_i,
      capital, position, entry_price, trades, cap_col, pos_col, equity_col, final_equity>>

gridVars ==
    <<grid_args, grid_prices, shares_per_grid, grid_position, positions>>

riskVars ==
    <<ex_positions, ex_trades, max_position_size, td_pc, td_symbols, account_info,
      decisions, results>>

indVars ==
    <<macd_args, df_in, df_calc, df_sig, ind_pc>>

runVars ==
    <<run, first_run>>

stratVars ==
    <<st_kind, st_params, st_in, st_out, st_pc>>

vars ==
    <<btVars, gridVars, riskVars, indVars, runVars, stratVars>>

Zeros(n) ==
    [k \in 1..n |-> Zero]

(***************************************************************************)
(* StrategyBase.backtest                                                   *)
(***************************************************************************)
\* Variant: the bar's own signal is used (no lag).
LaggedSignal_SameBar(sig, i) ==
    At(sig, i)

\* signal = data['signal'].iloc[i-1]
LaggedSignal(sig, i) ==
    At(sig, i - 1)

\* Variant: the entry guard forgets the position test (pyramiding).
BuyGuard_Pyramiding(s, pos) ==
    s = 1

\* if signal == 1 and position == 0
BuyGuard(s, pos) ==
    s = 1 /\ pos = Zero

\* elif signal == -1 and position > 0
SellGuard(s, pos) ==
    s = -1 /\ RGt(pos, Zero)

\* shares = (capital * position_size) / price
Shares(cap, f, price) ==
    RDiv(RMul(cap, f), price)

\* Variant: the entry fee is left out of the cost.
Cost_NoCommission(shares, price, c) ==
    RMul(shares, price)

\* cost = shares * price * (1 + commission)
Cost(shares, price, c) ==
    RMul(RMul(shares, price), RAdd(One, c))

\* Variant: the cash test is dropped.
Affordable_Always(cost, cap) ==
    TRUE

\* if cost <= capital
Affordable(cost, cap) ==
    RLe(cost, cap)

\* proceeds = position * price * (1 - commission)
Proceeds(pos, price, c) ==
    RMul(RMul(pos, price), RSub(One, c))

\* profit = proceeds - (position * entry_price * (1 + commission))
Profit(proceeds, pos, entry, c) ==
    RSub(proceeds, RMul(RMul(pos, entry), RAdd(One, c)))

\* Variant: the ratio is not scaled to percent.
ProfitPct_Fraction(profit, pos, entry) ==
    RDiv(profit, RMul(pos, entry))

\* 'profit_pct': profit / (position * entry_price) * 100
ProfitPct(profit, pos, entry) ==
    RMul(RDiv(profit, RMul(pos, entry)), R(100))

BuyTrade(i, price, shares, cost, cap) ==
    [type |-> "buy", date |-> i, price |-> price, shares |-> shares,
     cost |-> cost, capital |-> cap]

SellTrade(i, price, shares, proceeds, profit, pct, cap) ==
    [type |-> "sell", date |-> i, price |-> price, shares |-> shares,
     proceeds |-> proceeds, profit |-> profit, profit_pct |-> pct, capital |-> cap]

\* Lines 81-94: prepare the data, initialise the locals and the result columns.
BaseStart ==
    /\ kind = "base"
    /\ bt_pc = "start"
    /\ capital' = initial_capital
    /\ position' = Zero
    /\ entry_price' = Zero
    /\ trades' = <<>>
    /\ cap_col' = Zeros(Len(close))
    /\ pos_col' = Zeros(Len(close))
    /\ equity_col' = Zeros(Len(close))
    /\ bt_i' = 1
    /\ bt_pc' = "loop"
    /\ UNCHANGED <<kind, close, signal, initial_capital, position_size, commission,
                   final_equity>>
    /\ UNCHANGED gridVars
    /\ UNCHANGED <<riskVars, runVars>>
    /\ UNCHANGED <<indVars, stratVars>>

\* Lines 97-142: one iteration of `for i in range(1, len(data))`.
BaseBar ==
    /\ kind = "base"
    /\ bt_pc = "loop"
    /\ bt_i < Len(close)
    /\ LET i == bt_i
           price == R(At(close, i))
           s == LaggedSignal(signal, i)
           shares == Shares(capital, position_size, price)
           cost == Cost(shares, price, commission)
           proceeds == Proceeds(position, price, commission)
           profit == Profit(proceeds, position, entry_price, commission)
       IN  /\ IF BuyGuard(s, position)
              THEN IF Affordable(cost, capital)
                   THEN /\ position' = shares
                        /\ entry_price' = price
                        /\ capital' = RSub(capital, cost)
                        /\ trades' = Append(trades,
                              BuyTrade(i, price, shares, cost, RSub(capital, cost)))
                   ELSE UNCHANGED <<position, entry_price, capital, trades>>
              ELSE IF SellGuard(s, position)
                   THEN /\ capital' = RAdd(capital, proceeds)
                        /\ trades' = Append(trades,
                              SellTrade(i, price, position, proceeds, profit,
                                        ProfitPct(profit, position, entry_price),
                                        RAdd(capital, proceeds)))
                        /\ position' = Zero
                        /\ entry_price' = Zero
                   ELSE UNCHANGED <<position, entry_price, capital, trades>>
           /\ cap_col' = SetAt(cap_col, i, capital')
           /\ pos_col' = SetAt(pos_col, i, position')
           /\ equity_col' = SetAt(equity_col, i, RAdd(capital', RMul(position', price)))
    /\ bt_i' = bt_i + 1
    /\ UNCHANGED <<kind, close, signal, initial_capital, position_size, commission,
                   bt_pc, final_equity>>
    /\ UNCHANGED gridVars
    /\ UNCHANGED <<riskVars, runVars>>
    /\ UNCHANGED <<indVars, stratVars>>

\* Line 148: final_equity = data['equity'].iloc[-1]; an empty frame raises IndexError.
BaseFinish ==
    /\ kind = "base"
    /\ bt_pc = "loop"
    /\ bt_i >= Len(close)
    /\ IF Len(close) = 0
       THEN /\ bt_pc' = "raised"
            /\ UNCHANGED final_equity
       ELSE /\ bt_pc' = "done"
            /\ final_equity' = At(equity_col, Len(close) - 1)
    /\ UNCHANGED <<kind, close, signal, initial_capital, position_size, commission,
                   bt_i, capital, position, entry_price, trades, cap_col, pos_col,
                   equity_col>>
    /\ UNCHANGED gridVars
    /\ UNCHANGED <<riskVars, runVars>>
    /\ UNCHANGED <<indVars, stratVars>>

BaseInit ==
    /\ kind = "base"
    /\ close \in SeqsUpTo(PriceSet, MaxBars)
    /\ signal \in SeqsOfLen(SignalSet, Len(close))
    /\ initial_capital \in {R(k) : k \in CapitalSet}
    /\ position_size \in PositionSizeSet
    /\ commission \in CommissionSet
    /\ bt_pc = "start"
    /\ bt_i = 0
    /\ capital = Zero
    /\ position = Zero
    /\ entry_price = Zero
    /\ trades = <<>>
    /\ cap_col = <<>>
    /\ pos_col = <<>>
    /\ equity_col = <<>>
    /\ final_equity = Zero
    /\ grid_args = [upper_price |-> Zero, lower_price |-> Zero, grid_num |-> 0]
    /\ grid_prices = <<>>
    /\ shares_per_grid = Zero
    /\ grid_position = <<>>
    /\ positions = <<>>

(***************************************************************************)
(* GridStrategy: construction, prepare_data, generate_signals, backtest    *)
(***************************************************************************)
MaxGridNum ==
    3

UpperPriceSet ==
    {10, 13}

LowerPriceSet ==
    {10}

SharesPerGridSet ==
    {R(1), R(6)}

\* GridStrategy.__init__: the two parameter checks that raise ValueError.
GridArgsValid(a) ==
    ~RLe(a.upper_price, a.lower_price) /\ ~(a.grid_num <= 0)

\* Variant: range(num) instead of range(num + 1), the top level is missing.
CalculateGridPrices_NoUpper(a) ==
    LET interval == RDiv(RSub(a.upper_price, a.lower_price), R(a.grid_num))
    IN  [k \in 1..a.grid_num |-> RAdd(a.lower_price, RMul(R(k - 1), interval))]

\* _calculate_grid_prices: [lower + i * interval for i in range(num + 1)]
CalculateGridPrices(a) ==
    LET interval == RDiv(RSub(a.upper_price, a.lower_price), R(a.grid_num))
    IN  [k \in 1..(a.grid_num + 1) |-> RAdd(a.lower_price, RMul(R(k - 1), interval))]

\* prepare_data for one bar: the loop over the grid intervals overwrites
\* grid_position in index order, then the upper boundary case is applied.
RECURSIVE GridPositionLoop(_, _, _, _)
GridPositionLoop(p, gp, i, acc) ==
    IF i >= Len(gp) - 1 THEN acc
    ELSE GridPositionLoop(p, gp, i + 1,
            IF RGe(p, At(gp, i)) /\ RLt(p, At(gp, i + 1)) THEN i ELSE acc)

GridPositionOf(p, gp) ==
    IF RGe(p, gp[Len(gp)]) THEN Len(gp) - 2
    ELSE GridPositionLoop(p, gp, 0, 0)

PrepareGridData(cl, gp) ==
    [k \in 1..Len(cl) |-> GridPositionOf(R(cl[k]), gp)]

\* generate_signals: diff() of grid_position (no value at bar 0), > 0 -> -1, < 0 -> 1.
GridSignalOf(gpos, k) ==
    IF k = 1 THEN 0
    ELSE IF gpos[k] - gpos[k - 1] < 0 THEN 1
    ELSE IF gpos[k] - gpos[k - 1] > 0 THEN -1
    ELSE 0

GenerateGridSignals(gpos) ==
    [k \in 1..Len(gpos) |-> GridSignalOf(gpos, k)]

\* signal = data['signal'].iloc[i]
GridSignalAt(sig, i) ==
    At(sig, i)

\* cost = shares_per_grid * price * (1 + commission)
GridCost(spg, price, c) ==
    RMul(RMul(spg, price), RAdd(One, c))

\* Variant: the grid buy is not tested against the cash.
GridAffordable_Always(cost, cap) ==
    TRUE

\* if cost <= capital
GridAffordable(cost, cap) ==
    RLe(cost, cap)

\* positions[grid_position] += shares_per_grid, or = shares_per_grid for a new key
GridAddPosition(ps, g, spg) ==
    IF g \in DOMAIN ps
    THEN [ps EXCEPT ![g] = RAdd(ps[g], spg)]
    ELSE [k \in (DOMAIN ps) \cup {g} |-> IF k = g THEN spg ELSE ps[k]]

\* any level the sell loop would reach: a key with positions[pos] > 0
GridHasInventory(ps) ==
    \E g \in DOMAIN ps : RGt(ps[g], Zero)

RECURSIVE SumValues(_, _)
SumValues(ps, D) ==
    IF D = {} THEN Zero
    ELSE LET g == CHOOSE x \in D : TRUE
         IN  RAdd(ps[g], SumValues(ps, D \ {g}))

\* total_position_value = sum(pos * price for pos in positions.values())
TotalPositionValue(ps, price) ==
    RMul(SumValues(ps, DOMAIN ps), price)

GridBuyTrade(i, price, spg, g, cost, cap) ==
    [type |-> "buy", date |-> i, price |-> price, shares |-> spg, grid |-> g,
     cost |-> cost, capital |-> cap]

\* GridStrategy.__init__ (reached directly or through StrategyFactory.create_strategy)
GridConstruct ==
    /\ kind = "grid"
    /\ bt_pc = "construct"
    /\ IF GridArgsValid(grid_args)
       THEN /\ grid_prices' = CalculateGridPrices(grid_args)
            /\ bt_pc' = "start"
       ELSE /\ bt_pc' = "config_error"
            /\ UNCHANGED grid_prices
    /\ UNCHANGED <<kind, close, signal, initial_capital, position_size, commission, bt_i,
                   capital, position, entry_price, trades, cap_col, pos_col, equity_col,
                   final_equity, grid_args, shares_per_grid, grid_position, positions>>
    /\ UNCHANGED <<riskVars, runVars>>
    /\ UNCHANGED <<indVars, stratVars>>

\* GridStrategy.backtest lines 130-142
GridStart ==
    /\ kind = "grid"
    /\ bt_pc = "start"
    /\ grid_position' = PrepareGridData(close, grid_prices)
    /\ signal' = GenerateGridSignals(grid_position')
    /\ capital' = initial_capital
    /\ positions' = <<>>
    /\ trades' = <<>>
    /\ cap_col' = Zeros(Len(close))
    /\ pos_col' = Zeros(Len(close))
    /\ equity_col' = Zeros(Len(close))
    /\ bt_i' = 1
    /\ bt_pc' = "loop"
    /\ UNCHANGED <<kind, close, initial_capital, position_size, commission, position,
                   entry_price, final_equity, grid_args, grid_prices, shares_per_grid>>
    /\ UNCHANGED <<riskVars, runVars>>
    /\ UNCHANGED <<indVars, stratVars>>

\* GridStrategy.backtest lines 145-203: one iteration of the bar loop.  The sell
\* branch evaluates data['close'].iloc[positions[pos] == grid_position], an iloc
\* lookup with a boolean key, which raises TypeError before any state is changed.
GridBar ==
    /\ kind = "grid"
    /\ bt_pc = "loop"
    /\ bt_i < Len(close)
    /\ LET i == bt_i
           price == R(At(close, i))
           g == At(grid_position, i)
           s == GridSignalAt(signal, i)
           cost == GridCost(shares_per_grid, price, commission)
       IN  IF s = -1 /\ GridHasInventory(positions)
           THEN /\ bt_pc' = "raised"
                /\ UNCHANGED <<capital, positions, trades, cap_col, pos_col, equity_col,
                               bt_i>>
           ELSE /\ IF s = 1 /\ GridAffordable(cost, capital)
                   THEN /\ capital' = RSub(capital, cost)
                        /\ positions' = GridAddPosition(positions, g, shares_per_grid)
                        /\ trades' = Append(trades,
                              GridBuyTrade(i, price, shares_per_grid, g, cost,
                                           RSub(capital, cost)))
                   ELSE UNCHANGED <<capital, positions, trades>>
                /\ cap_col' = SetAt(cap_col, i, capital')
                /\ pos_col' = SetAt(pos_col, i, TotalPositionValue(positions', price))
                /\ equity_col' = SetAt(equity_col, i,
                                       RAdd(capital', TotalPositionValue(positions', price)))
                /\ bt_i' = bt_i + 1
                /\ UNCHANGED bt_pc
    /\ UNCHANGED <<kind, close, signal, initial_capital, position_size, commission,
                   position, entry_price, final_equity, grid_args, grid_prices,
                   shares_per_grid, grid_position>>
    /\ UNCHANGED <<riskVars, runVars>>
    /\ UNCHANGED <<indVars, stratVars>>

\* Line 206: final_equity = data['equity'].iloc[-1]; an empty frame raises IndexError.
GridFinish ==
    /\ kind = "grid"
    /\ bt_pc = "loop"
    /\ bt_i >= Len(close)
    /\ IF Len(close) = 0
       THEN /\ bt_pc' = "raised"
            /\ UNCHANGED final_equity
       ELSE /\ bt_pc' = "done"
            /\ final_equity' = At(equity_col, Len(close) - 1)
    /\ UNCHANGED <<kind, close, signal, initial_capital, position_size, commission,
                   bt_i, capital, position, entry_price, trades, cap_col, pos_col,
                   equity_col>>
    /\ UNCHANGED gridVars
    /\ UNCHANGED <<riskVars, runVars>>
    /\ UNCHANGED <<indVars, stratVars>>

GridInit ==
    /\ kind = "grid"
    /\ close \in SeqsUpTo(GridPriceSet, MaxGridBars)
    /\ signal = <<>>
    /\ initial_capital \in {R(k) : k \in CapitalSet}
    /\ position_size = One
    /\ commission \in CommissionSet
    /\ bt_pc = "construct"
    /\ bt_i = 0
    /\ capital = Zero
    /\ position = Zero
    /\ entry_price = Zero
    /\ trades = <<>>
    /\ cap_col = <<>>
    /\ pos_col = <<>>
    /\ equity_col = <<>>
    /\ final_equity = Zero
    /\ grid_args \in [upper_price : {R(u) : u \in UpperPriceSet},
                      lower_price : {R(l) : l \in LowerPriceSet},
                      grid_num : 0..MaxGridNum]
    /\ grid_prices = <<>>
    /\ shares_per_grid \in SharesPerGridSet
    /\ grid_position = <<>>
    /\ positions = <<>>

(***************************************************************************)
(* DynamicGridStrategy                                                     *)
(***************************************************************************)
MaxDynBars ==
    4

CenterPriceSet ==
    {0, 10}

VolatilityWindowSet ==
    {2, 3}

VolatilityMultiplierSet ==
    {R(2)}

\* A rational in lowest terms has a rational square root iff both parts are squares.
RSqrtExists(q) ==
    \E a \in 0..q[1], b \in 1..q[2] : a * a = q[1] /\ b * b = q[2]

RSqrt(q) ==
    CHOOSE r \in {<<a, b>> : a \in 0..q[1], b \in 1..q[2]} :
        r[1] * r[1] = q[1] /\ r[2] * r[2] = q[2]

RECURSIVE SumSeq(_)
SumSeq(xs) ==
    IF xs = <<>> THEN Zero ELSE RAdd(Head(xs), SumSeq(Tail(xs)))

Mean(xs) ==
    RDiv(SumSeq(xs), R(Len(xs)))

\* The sample variance (ddof = 1) that Series.rolling(window).std() takes the root of.
SampleVar(xs) ==
    RDiv(SumSeq([k \in 1..Len(xs) |->
                    RMul(RSub(xs[k], Mean(xs)), RSub(xs[k], Mean(xs)))]),
         R(Len(xs) - 1))

\* The window of w bars that ends at bar i (0-based) of close.
WindowAt(cl, i, w) ==
    [k \in 1..w |-> R(At(cl, i - w + k))]

\* data['volatility'].iloc[i] for i >= window - 1
VolatilityAt(cl, i, w) ==
    RSqrt(SampleVar(WindowAt(cl, i, w)))

\* Close series on which every volatility the loop reads is a rational number.
DynCloseOK(cl, w) ==
    \A i \in w..(Len(cl) - 1) : RSqrtExists(SampleVar(WindowAt(cl, i, w)))

\* Lines 288-297 for one bar: the boundaries are moved to
\* center_price -/+ volatility * volatility_multiplier and written to params.
DynAdjustArgs(a, cl, i) ==
    LET spread == RMul(VolatilityAt(cl, i, a.volatility_window), a.volatility_multiplier)
    IN  [a EXCEPT !.upper_price = RAdd(a.center_price, spread),
                  !.lower_price = RSub(a.center_price, spread)]

\* The arguments DynamicGridStrategy.__init__ hands to GridStrategy.__init__.
DynParentArgs(a) ==
    [a EXCEPT !.upper_price = RMul(a.center_price, Frac(11, 10)),
              !.lower_price = RMul(a.center_price, Frac(9, 10))]

\* DynamicGridStrategy.__init__: the parent constructor validates the temporary
\* boundaries price * 1.1 and price * 0.9, then the dynamic parameters are added.
DynConstruct ==
    /\ kind = "dynamic"
    /\ bt_pc = "construct"
    /\ IF GridArgsValid(DynParentArgs(grid_args))
       THEN /\ grid_args' = DynParentArgs(grid_args)
            /\ grid_prices' = CalculateGridPrices(DynParentArgs(grid_args))
            /\ bt_pc' = "start"
       ELSE /\ bt_pc' = "config_error"
            /\ UNCHANGED <<grid_args, grid_prices>>
    /\ UNCHANGED <<kind, close, signal, initial_capital, position_size, commission, bt_i,
                   capital, position, entry_price, trades, cap_col, pos_col, equity_col,
                   final_equity, shares_per_grid, grid_position, positions>>
    /\ UNCHANGED <<riskVars, runVars>>
    /\ UNCHANGED <<indVars, stratVars>>

\* GridStrategy.backtest lines 131-132 on a DynamicGridStrategy.  prepare_data
\* never creates the grid_position column.  With more bars than the volatility
\* window, the first loop iteration (i = volatility_window) rewrites the
\* boundaries and grid_prices and then raises KeyError at line 308; otherwise
\* prepare_data returns and generate_signals raises KeyError at line 106.
DynStart ==
    /\ kind = "dynamic"
    /\ bt_pc = "start"
    /\ IF Len(close) > grid_args.volatility_window
       THEN /\ grid_args' = DynAdjustArgs(grid_args, close, grid_args.volatility_window)
            /\ grid_prices' = CalculateGridPrices(grid_args')
       ELSE UNCHANGED <<grid_args, grid_prices>>
    /\ bt_pc' = "raised"
    /\ UNCHANGED <<kind, close, signal, initial_capital, position_size, commission, bt_i,
                   capital, position, entry_price, trades, cap_col, pos_col, equity_col,
                   final_equity, shares_per_grid, grid_position, positions>>
    /\ UNCHANGED <<riskVars, runVars>>
    /\ UNCHANGED <<indVars, stratVars>>

DynInit ==
    /\ kind = "dynamic"
    /\ grid_args \in [upper_price : {Zero}, lower_price : {Zero}, grid_num : 1..MaxGridNum,
                      center_price : {R(p) : p \in CenterPriceSet},
                      volatility_window : VolatilityWindowSet,
                      volatility_multiplier : VolatilityMultiplierSet]
    /\ close \in {cl \in SeqsUpTo(GridPriceSet, MaxDynBars) :
                     DynCloseOK(cl, grid_args.volatility_window)}
    /\ signal = <<>>
    /\ initial_capital \in {R(k) : k \in CapitalSet}
    /\ position_size = One
    /\ commission = Zero
    /\ bt_pc = "construct"
    /\ bt_i = 0
    /\ capital = Zero
    /\ position = Zero
    /\ entry_price = Zero
    /\ trades = <<>>
    /\ cap_col = <<>>
    /\ pos_col = <<>>
    /\ equity_col = <<>>
    /\ final_equity = Zero
    /\ grid_prices = <<>>
    /\ shares_per_grid = One
    /\ grid_position = <<>>
    /\ positions = <<>>

(***************************************************************************)
(* A second backtest call on the same strategy instance and the same data   *)
(***************************************************************************)
\* What a backtest call hands back: the result dict, or the exception.
RunResult ==
    [status |-> bt_pc, equity |-> equity_col, trades |-> trades,
     final_equity |-> final_equity]

\* The first call has returned or raised; the caller calls backtest again with
\* the same arguments.  The locals of the first call are gone, the instance
\* (params, grid_prices) is the one the first call left behind.
BacktestAgain ==
    /\ run = 1
    /\ kind \in {"base", "grid", "dynamic"}
    /\ bt_pc \in {"done", "raised"}
    /\ first_run' = RunResult
    /\ run' = 2
    /\ bt_pc' = "start"
    /\ bt_i' = 0
    /\ capital' = Zero
    /\ position' = Zero
    /\ entry_price' = Zero
    /\ trades' = <<>>
    /\ cap_col' = <<>>
    /\ pos_col' = <<>>
    /\ equity_col' = <<>>
    /\ final_equity' = Zero
    /\ grid_position' = <<>>
    /\ positions' = <<>>
    /\ signal' = IF kind = "base" THEN signal ELSE <<>>
    /\ UNCHANGED <<kind, close, initial_capital, position_size, commission, grid_args,
                   grid_prices, shares_per_grid>>
    /\ UNCHANGED riskVars
    /\ UNCHANGED <<indVars, stratVars>>

RunInit ==
    /\ run = 1
    /\ first_run = <<>>

\* Variant: the try/except of lines 271-289 is missing and a result record is
\* built from whatever the backtest left behind.
BacktestStrategyResult_Unguarded ==
    [initial_capital |-> initial_capital, final_equity |-> final_equity,
     total_trades |-> Len(trades), trades |-> trades, equity_curve |-> equity_col]

\* TradeDecision.backtest_strategy, what it returns once the strategy's backtest
\* has ended: {'error': ...} when create_strategy raised (lines 254-262) or the
\* backtest raised (286-289), the backtest's result otherwise (283-285).
BacktestStrategyResult ==
    IF bt_pc \in {"config_error", "raised"} THEN [error |-> bt_pc]
    ELSE [initial_capital |-> initial_capital, final_equity |-> final_equity,
          total_trades |-> Len(trades), trades |-> trades, equity_curve |-> equity_col]

(***************************************************************************)
(* Properties of StrategyBase.backtest and GridStrategy.backtest            *)
(***************************************************************************)
BaseInBar ==
    kind = "base" /\ bt_pc = "loop" /\ bt_i < Len(close)

GridInBar ==
    kind = "grid" /\ bt_pc = "loop" /\ bt_i < Len(close)

\* The signal and price the bar about to be processed works with.
PrevSignal ==
    At(signal, bt_i - 1)

BarPrice ==
    R(At(close, bt_i))

MaxOf(S) ==
    CHOOSE x \in S : \A y \in S : y <= x

\* The trades logged for bars 0..i, and the cash and quantity they leave behind.
TradesUpTo(i) ==
    {k \in 1..Len(trades) : trades[k].date <= i}

CashAfter(i) ==
    IF TradesUpTo(i) = {} THEN initial_capital
    ELSE trades[MaxOf(TradesUpTo(i))].capital

QuantityAfter(i) ==
    IF TradesUpTo(i) = {} THEN Zero
    ELSE IF trades[MaxOf(TradesUpTo(i))].type = "buy"
         THEN trades[MaxOf(TradesUpTo(i))].shares
         ELSE Zero

\* C1: the position of StrategyBase.backtest is 0 (FLAT) or exactly the quantity
\* of the last entry (LONG); a Buy signal while LONG and a Sell signal while FLAT
\* change nothing, and a Sell signal while LONG sets the position to 0 in one step.
C1_TwoStatePosition ==
    /\ [](kind = "base" /\ bt_pc \in {"loop", "done"} =>
            /\ position = QuantityAfter(Len(close))
            /\ \A i \in 1..(bt_i - 1) : At(pos_col, i) = QuantityAfter(i))
    /\ [][BaseInBar =>
            /\ (position # Zero /\ PrevSignal = 1 =>
                    UNCHANGED <<position, entry_price, capital, trades>>)
            /\ (position # Zero /\ PrevSignal = -1 =>
                    position' = Zero /\ Len(trades') = Len(trades) + 1)
            /\ (position = Zero /\ PrevSignal = -1 =>
                    UNCHANGED <<position, entry_price, capital, trades>>)]_vars

\* C1 witness: an entry at bar 1, a Buy signal ignored while LONG at bar 2, and a
\* full liquidation at bar 3.
C1_Witness ==
    /\ kind = "base"
    /\ bt_i = 4
    /\ Len(trades) = 2
    /\ trades[1].date = 1 /\ RGt(trades[1].shares, Zero)
    /\ At(signal, 1) = 1
    /\ trades[2].type = "sell" /\ trades[2].date = 3
    /\ position = Zero

\* C2: every fill at bar i is caused by the signal of bar i-1 and priced at the
\* close of bar i; no fill happens at bar 0 and the last bar's signal fills nothing.
C2_OneBarLag ==
    kind = "base" =>
        \A k \in 1..Len(trades) :
            /\ trades[k].date >= 1
            /\ trades[k].date <= Len(close) - 1
            /\ trades[k].price = R(At(close, trades[k].date))
            /\ At(signal, trades[k].date - 1) = (IF trades[k].type = "buy" THEN 1 ELSE -1)

\* C2 witness: a buy filled at bar 1 although bar 1's own signal is Sell, and
\* nothing filled after the last bar's Buy signal.
C2_Witness ==
    /\ kind = "base"
    /\ bt_pc = "done"
    /\ Len(close) = 3
    /\ signal = <<1, -1, 1>>
    /\ Len(trades) = 2
    /\ trades[1].type = "buy" /\ trades[1].date = 1
    /\ trades[2].type = "sell" /\ trades[2].date = 2

\* C3 (as claimed): after the backtest the equity curve has an entry for every bar,
\* bar 0 included, equal to the cash after that bar's fills plus position times
\* close; without any trade every bar's equity is initial_capital.
C3_EquityEveryBar ==
    (kind = "base" /\ bt_pc = "done") =>
        /\ Len(equity_col) = Len(close)
        /\ \A i \in 0..(Len(close) - 1) :
              At(equity_col, i) =
                  RAdd(CashAfter(i), RMul(QuantityAfter(i), R(At(close, i))))

\* C4: a Buy signal whose cost with commission exceeds the cash is skipped in both
\* simulators: cash, position or inventory and the trade log keep their values,
\* the bar's equity is recorded and the loop goes on to the next bar.
C4_InsufficientCapitalSkipped ==
    [][/\ (BaseInBar /\ PrevSignal = 1 /\ position = Zero
            /\ RGt(RMul(RMul(capital, position_size), RAdd(One, commission)), capital) =>
                /\ UNCHANGED <<capital, position, entry_price, trades>>
                /\ At(equity_col', bt_i) = RAdd(capital, RMul(position, BarPrice))
                /\ bt_pc' = "loop" /\ bt_i' = bt_i + 1)
       /\ (GridInBar /\ At(signal, bt_i) = 1
            /\ RGt(RMul(RMul(shares_per_grid, BarPrice), RAdd(One, commission)), capital) =>
                /\ UNCHANGED <<capital, positions, trades>>
                /\ At(equity_col', bt_i) =
                      RAdd(capital, RMul(SumValues(positions, DOMAIN positions), BarPrice))
                /\ bt_pc' = "loop" /\ bt_i' = bt_i + 1)]_vars

\* C4 witness: a grid run that filled one level at bar 1 and skipped the Buy of
\* bar 2 for lack of cash, and went on.
C4_Witness ==
    /\ kind = "grid"
    /\ bt_pc = "done"
    /\ Len(close) = 3
    /\ At(signal, 1) = 1 /\ At(signal, 2) = 1
    /\ Len(trades) = 1
    /\ trades[1].date = 1
    /\ RGt(capital, Zero)

C6_RoundTrip ==
    (kind = "base" /\ commission = Zero /\ position_size = One) =>
        \A k \in 1..Len(trades) :
            LET C == IF k = 1 THEN initial_capital ELSE trades[k - 1].capital
            IN  IF trades[k].type = "buy"
                THEN /\ trades[k].shares = RDiv(C, trades[k].price)
                     /\ trades[k].capital = Zero
                ELSE LET b == trades[k - 1]
                         q == trades[k].price
                     IN  /\ trades[k].shares = b.shares
                         /\ trades[k].capital = RMul(b.shares, q)
                         /\ trades[k].profit = RMul(b.shares, RSub(q, b.price))
                         /\ (b.shares # Zero =>
                               trades[k].profit_pct =
                                   RMul(RSub(RDiv(q, b.price), One), R(100)))

\* C6 witness: the scenario at scale 1/100: C = 100, p = 10, q = 11 gives
\* quantity 10, cash 110, profit 10 and 10 percent.
C6_Witness ==
    /\ kind = "base" /\ commission = Zero /\ position_size = One
    /\ initial_capital = R(100)
    /\ Len(trades) >= 2
    /\ trades[1].price = R(10) /\ trades[1].shares = R(10) /\ trades[1].capital = Zero
    /\ trades[2].price = R(11) /\ trades[2].capital = R(110)
    /\ trades[2].profit = R(10) /\ trades[2].profit_pct = R(10)

\* C15: constructing a grid strategy whose upper boundary is not above the lower
\* one, or whose grid_num is not positive, raises the configuration error: no grid
\* prices exist, no bar is ever processed and nothing follows.  Every other
\* construction yields grid_num + 1 level prices that start at lower_price, end at
\* upper_price, ascend strictly and are equidistant.
C15_GridConstruction ==
    [][/\ bt_pc # "config_error"
       /\ (bt_pc = "construct" /\ bt_pc' # "construct") =>
             LET a == IF kind = "dynamic" THEN DynParentArgs(grid_args) ELSE grid_args
                 bad == RLe(a.upper_price, a.lower_price) \/ a.grid_num <= 0
                 gp == grid_prices'
                 step == RDiv(RSub(a.upper_price, a.lower_price), R(a.grid_num))
             IN  /\ bad => /\ bt_pc' = "config_error"
                           /\ gp = <<>>
                           /\ trades' = <<>> /\ equity_col' = <<>> /\ bt_i' = 0
                 /\ ~bad => /\ bt_pc' = "start"
                            /\ Len(gp) = a.grid_num + 1
                            /\ gp[1] = a.lower_price
                            /\ gp[Len(gp)] = a.upper_price
                            /\ \A k \in 1..a.grid_num :
                                  /\ RLt(gp[k], gp[k + 1])
                                  /\ RSub(gp[k + 1], gp[k]) = step]_vars

\* C15 witness: a construction with equal boundaries and a positive grid_num has
\* been refused.
C15_Witness ==
    /\ kind = "grid"
    /\ bt_pc = "config_error"
    /\ grid_args.grid_num > 0
    /\ grid_args.upper_price = grid_args.lower_price

\* The quantity the grid backtest holds on level g.
GridHeld(ps, g) ==
    IF g \in DOMAIN ps THEN ps[g] ELSE Zero

\* The grid backtest has just executed a buy.
GridBought ==
    /\ GridInBar
    /\ Len(trades') = Len(trades) + 1
    /\ trades'[Len(trades')].type = "buy"

\* C16: every executed buy of GridStrategy.backtest adds one unit (shares_per_grid)
\* to the lowest grid level that holds no inventory and leaves the other levels
\* alone, so every level holds 0 or exactly one unit and the inventory slots are
\* indexed within 0..grid_num-1.
C16_BuyFillsLowestEmptyLevel ==
    [][GridBought =>
          LET levels == 0..(grid_args.grid_num - 1)
              empty == {g \in levels : GridHeld(positions, g) = Zero}
          IN  /\ empty # {}
              /\ \A lo \in empty :
                    (\A g \in empty : lo <= g) =>
                        /\ GridHeld(positions', lo) = shares_per_grid
                        /\ \A g \in levels \ {lo} :
                              GridHeld(positions', g) = GridHeld(positions, g)
              /\ DOMAIN positions' \subseteq levels
              /\ \A g \in DOMAIN positions' :
                    positions'[g] \in {Zero, shares_per_grid}]_vars

\* C17: a Sell signal of GridStrategy.backtest on a bar where some level holds
\* inventory completes: it drains exactly the lowest filled level to 0, credits
\* inventory * price * (1 - commission) to cash, leaves the other levels unchanged
\* and appends one sell trade whose share quantity is the inventory drained; a
\* Sell signal with no filled level changes neither cash, inventory nor the log.
C17_SellDrainsLowestFilled ==
    [][(GridInBar /\ GridSignalAt(signal, bt_i) = -1) =>
          IF GridHasInventory(positions)
          THEN LET filled == {g \in DOMAIN positions : RGt(positions[g], Zero)}
                   lo == CHOOSE g \in filled : \A h \in filled : g <= h
               IN  /\ bt_pc' = "loop"
                   /\ bt_i' = bt_i + 1
                   /\ positions' = [positions EXCEPT ![lo] = Zero]
                   /\ capital' = RAdd(capital,
                                      RMul(RMul(positions[lo], R(At(close, bt_i))),
                                           RSub(One, commission)))
                   /\ Len(trades') = Len(trades) + 1
                   /\ trades'[Len(trades')].type = "sell"
                   /\ trades'[Len(trades')].shares = positions[lo]
          ELSE /\ bt_pc' = "loop"
               /\ UNCHANGED <<capital, positions, trades>>]_vars

\* The second backtest call on the instance has returned or raised.
SecondRunOver ==
    run = 2 /\ bt_pc \in {"done", "raised"}

\* C18: for every strategy variant, the dynamic grid included, running backtest
\* twice on the same non-empty bar series with the same instance yields the same
\* equity curve and the same trade log both times, and the first run leaves the
\* instance's parameters and grid prices as the constructor set them.
C18_SecondRunIdentical ==
    (SecondRunOver /\ Len(close) > 0) =>
        /\ first_run.status = "done"
        /\ bt_pc = "done"
        /\ equity_col = first_run.equity
        /\ trades = first_run.trades
        /\ final_equity = first_run.final_equity
        /\ kind = "dynamic" =>
              /\ grid_args = DynParentArgs(grid_args)
              /\ grid_prices = CalculateGridPrices(DynParentArgs(grid_args))

\* C26: GridStrategy.backtest applies the one-bar execution lag of the base
\* simulator: a fill at bar i is caused by the signal computed at bar i-1 (a buy
\* by a +1, a sell by a -1), never by the signal derived from bar i's own close.
C26_GridFillsLagOneBar ==
    [][(kind = "grid" /\ bt_pc = "loop" /\ Len(trades') = Len(trades) + 1) =>
          LET fill == trades'[Len(trades')]
          IN  /\ bt_i >= 1
              /\ fill.type = "buy" => At(signal, bt_i - 1) = 1
              /\ fill.type = "sell" => At(signal, bt_i - 1) = -1]_vars

\* C27: in StrategyBase.backtest the trade log is append-only and strictly
\* alternates buy, sell, buy, ... starting with a buy, for every signal sequence:
\* the sells are never more than the buys and at most one less, and each sell's
\* share quantity is that of the buy just before it.
C27_TradeLogAlternates ==
    /\ [][BaseBar =>
            /\ Len(trades') >= Len(trades)
            /\ SubSeq(trades', 1, Len(trades)) = trades]_vars
    /\ [](kind = "base" =>
            \A k \in 1..Len(trades) :
                /\ trades[k].type = (IF k % 2 = 1 THEN "buy" ELSE "sell")
                /\ (k % 2 = 0 => trades[k].shares = trades[k - 1].shares))

\* C28: cash never becomes negative in a backtest: with positive prices,
\* initial_capital >= 0 and 0 <= commission < 1, the cash balance after every bar
\* of StrategyBase.backtest and of GridStrategy.backtest (fixed or dynamic grid)
\* is >= 0, in the running balance, in the recorded capital column and in the
\* balance logged with every trade.
C28_CashNeverNegative ==
    (kind \in {"base", "grid", "dynamic"} /\ RGe(initial_capital, Zero)
        /\ RGe(commission, Zero) /\ RLt(commission, One)
        /\ \A k \in 1..Len(close) : close[k] > 0) =>
        /\ RGe(capital, Zero)
        /\ \A k \in 1..Len(cap_col) : RGe(cap_col[k], Zero)
        /\ \A k \in 1..Len(trades) : RGe(trades[k].capital, Zero)

\* C28 witness: a grid buy that the cash just covers (6 units at 10 with a tenth
\* of commission cost 66 of 100) has left 34, and the next buy at that price
\* would not fit.
C28_Witness ==
    /\ kind = "grid"
    /\ bt_pc = "loop"
    /\ initial_capital = R(100)
    /\ Len(trades) = 1
    /\ trades[1].type = "buy"
    /\ capital = R(34)
    /\ cap_col[bt_i] = R(34)
    /\ ~GridAffordable(GridCost(shares_per_grid, R(10), commission), capital)

(***************************************************************************)
(* TradeExecutor and TradeDecision: the live decision path                 *)
(***************************************************************************)
MaxTrades ==
    2

MinNotional ==
    10

Symbols ==
    {"BTCUSDT", "HK.00700"}

LivePriceSet ==
    {10, 20}

MaxPositionSizeSet ==
    {Frac(1, 10), Frac(1, 5)}

\* What TradeExecutor.get_account_info may return: one entry per configured API
\* ('binance' first, then 'futu'), an entry being the API's account record or
\* an error record.
Failed ==
    [error |-> "failed"]

Assets(k) ==
    [total_assets |-> R(k)]

AccountInfos ==
    {<<>>,
     "binance" :> Failed,
     "binance" :> Assets(500),
     ("binance" :> Assets(500)) @@ ("futu" :> Failed),
     ("binance" :> Assets(250)) @@ ("futu" :> Assets(250))}

OrderAmountSet ==
    {Frac(9, 2)}

BrokerOutcomes ==
    {"no_api", "raises", "no_order_id", "ok"}

\* The symbol lists a caller passes: none, one symbol, or both.
SymbolBatches ==
    {<<>>, <<"BTCUSDT">>, <<"HK.00700">>, <<"BTCUSDT", "HK.00700">>}

\* info.get('total_assets', 0.0)
EntryTotal(info) ==
    IF "total_assets" \in DOMAIN info THEN info.total_assets ELSE Zero

\* Lines 78-81: sum of total_assets over the entries that carry no 'error'.
RECURSIVE SumAssets(_, _)
SumAssets(acct, D) ==
    IF D = {} THEN Zero
    ELSE LET a == CHOOSE x \in D : TRUE
         IN  RAdd(IF "error" \notin DOMAIN acct[a] THEN EntryTotal(acct[a]) ELSE Zero,
                  SumAssets(acct, D \ {a}))

TotalAssets(acct) ==
    SumAssets(acct, DOMAIN acct)

\* positions.get(symbol, 0.0)
PositionOf(ps, sym) ==
    IF sym \in DOMAIN ps THEN ps[sym] ELSE Zero

Reject ==
    [execute |-> FALSE, amount |-> Zero]

\* Variant: the quantity is sized from the whole cap, ignoring the held position.
RiskBuy_IgnoresPosition(total, cur, price, maxsize) ==
    LET available_capital == RMul(total, maxsize)
        buy_amount == RDiv(available_capital, price)
    IN  IF RGe(RMul(cur, price), available_capital) THEN Reject
        ELSE IF RLt(RMul(buy_amount, price), R(MinNotional)) THEN Reject
        ELSE [execute |-> TRUE, amount |-> buy_amount]

\* Lines 94-109: the Buy branch of _apply_risk_management.
RiskBuy(total, cur, price, maxsize) ==
    LET position_value == RMul(cur, price)
        available_capital == RMul(total, maxsize)
        remaining_capital == RSub(available_capital, position_value)
        buy_amount == RDiv(remaining_capital, price)
    IN  IF RGe(position_value, available_capital) THEN Reject
        ELSE IF RLt(RMul(buy_amount, price), R(MinNotional)) THEN Reject
        ELSE [execute |-> TRUE, amount |-> buy_amount]

\* Variant: half of the position is sold.
RiskSell_Half(cur) ==
    IF RLe(cur, Zero) THEN Reject
    ELSE [execute |-> TRUE, amount |-> RDiv(cur, R(2))]

\* Lines 111-118: the Sell branch of _apply_risk_management.
RiskSell(cur) ==
    IF RLe(cur, Zero) THEN Reject
    ELSE [execute |-> TRUE, amount |-> cur]

\* Variant: the no-signal test is missing and 0 is sized like a Buy.
ApplyRiskManagement_NoHoldTest(sig, sym, price, acct, ps, maxsize) ==
    IF RLe(TotalAssets(acct), Zero) THEN Reject
    ELSE IF sig = -1 THEN RiskSell(PositionOf(ps, sym))
    ELSE RiskBuy(TotalAssets(acct), PositionOf(ps, sym), price, maxsize)

\* TradeDecision._apply_risk_management for a signal in {-1, 0, 1}.
ApplyRiskManagement(sig, sym, price, acct, ps, maxsize) ==
    IF sig = 0 THEN Reject
    ELSE IF RLe(TotalAssets(acct), Zero) THEN Reject
    ELSE IF sig = 1 THEN RiskBuy(TotalAssets(acct), PositionOf(ps, sym), price, maxsize)
    ELSE RiskSell(PositionOf(ps, sym))

\* 'side': 'BUY' if latest_signal == 1 else 'SELL' if latest_signal == -1 else 'HOLD'
SideOf(sig) ==
    IF sig = 1 THEN "BUY" ELSE IF sig = -1 THEN "SELL" ELSE "HOLD"

\* Lines 176-185: the decision record (strategy label and wall-clock time left out).
Decision(sym, sig, price, r) ==
    [symbol |-> sym, signal |-> sig, current_price |-> price,
     execute_trade |-> r.execute, trade_amount |-> r.amount, side |-> SideOf(sig)]

\* Variant: every decision is turned into an order.
WantsOrder_Always(d) ==
    TRUE

\* execute_decisions line 207: if decision.get('execute_trade', False)
WantsOrder(d) ==
    d.execute_trade

OrderOf(d) ==
    [symbol |-> d.symbol, side |-> d.side, order_type |-> "MARKET",
     amount |-> d.trade_amount, price |-> "None"]

\* execute_decisions lines 203-216: the orders built from the decisions.
RECURSIVE OrdersOf(_)
OrdersOf(ds) ==
    IF ds = <<>> THEN <<>>
    ELSE IF WantsOrder(Head(ds)) THEN <<OrderOf(Head(ds))>> \o OrdersOf(Tail(ds))
    ELSE OrdersOf(Tail(ds))

\* What the broker call of place_order returns for each outcome.
BrokerResult(outcome, n) ==
    IF outcome = "ok" THEN [order_id |-> n, status |-> "FILLED"]
    ELSE IF outcome = "no_order_id" THEN [status |-> "REJECTED"]
    ELSE [error |-> outcome]

\* Variant: the recorded position is overwritten with the order's amount.
UpdatePosition_Overwrites(ps, sym, side, amount) ==
    LET new == IF side = "BUY" THEN amount ELSE RSub(Zero, amount)
    IN  IF side \notin {"BUY", "SELL"} THEN ps
        ELSE [k \in (DOMAIN ps) \cup {sym} |-> IF k = sym THEN new ELSE ps[k]]

\* place_order lines 72-75: the position bookkeeping.
UpdatePosition(ps, sym, side, amount) ==
    LET new == IF side = "BUY" THEN RAdd(PositionOf(ps, sym), amount)
               ELSE IF side = "SELL" THEN RSub(PositionOf(ps, sym), amount)
               ELSE PositionOf(ps, sym)
    IN  IF side \notin {"BUY", "SELL"} THEN ps
        ELSE [k \in (DOMAIN ps) \cup {sym} |-> IF k = sym THEN new ELSE ps[k]]

\* Variant: the trade is recorded whether or not the result carries an order_id.
PlaceOrder_RecordsUnconfirmed(st, order, outcome) ==
    LET res == BrokerResult(outcome, Len(st.trades) + 1)
    IN  [positions |-> UpdatePosition(st.positions, order.symbol, order.side,
                                      order.amount),
         trades |-> Append(st.trades,
               [symbol |-> order.symbol, order_type |-> order.order_type,
                side |-> order.side, amount |-> order.amount,
                price |-> "market", order_id |-> Len(st.trades) + 1,
                status |-> "FILLED"]),
         result |-> res]

\* TradeExecutor.place_order on the executor state st = [positions, trades].
PlaceOrder(st, order, outcome) ==
    LET res == BrokerResult(outcome, Len(st.trades) + 1)
    IN  IF "order_id" \in DOMAIN res
        THEN [positions |-> UpdatePosition(st.positions, order.symbol, order.side,
                                           order.amount),
              trades |-> Append(st.trades,
                    [symbol |-> order.symbol, order_type |-> order.order_type,
                     side |-> order.side, amount |-> order.amount,
                     price |-> "market", order_id |-> res.order_id,
                     status |-> res.status]),
              result |-> res]
        ELSE [positions |-> st.positions, trades |-> st.trades, result |-> res]

\* TradeExecutor.execute_order_list: orders are placed in list order; an order
\* without symbol, side or amount is answered with an error and not placed.
RECURSIVE ExecuteOrderList(_, _, _)
ExecuteOrderList(st, orders, outcomes) ==
    IF orders = <<>> THEN st
    ELSE LET o == Head(orders)
         IN  IF o.amount = Zero
             THEN ExecuteOrderList(
                    [st EXCEPT !.results = Append(@, [error |-> "missing", order |-> o])],
                    Tail(orders), Tail(outcomes))
             ELSE LET r == PlaceOrder(st, o, Head(outcomes))
                  IN  ExecuteOrderList(
                        [positions |-> r.positions, trades |-> r.trades,
                         results |-> Append(st.results, [order |-> o, result |-> r.result])],
                        Tail(orders), Tail(outcomes))

\* The market data of one symbol as make_decision sees it after the strategy ran:
\* the close column and the signal column.
NoBars ==
    [close |-> <<>>, signal |-> <<>>]

OneBar(p, sig) ==
    [close |-> <<R(p)>>, signal |-> <<sig>>]

\* make_decision lines 155-190, the body of the symbol loop: empty market data
\* is logged and skipped (158-160), an exception of the strategy is logged and
\* skipped (189-190), otherwise the latest signal and close are evaluated and
\* the decision is appended.
DecideSymbol(ds, sym, market, raises, acct, ps, maxsize) ==
    IF Len(market.close) = 0 THEN ds
    ELSE IF raises THEN ds
    ELSE LET latest_signal == market.signal[Len(market.signal)]
             current_price == market.close[Len(market.close)]
         IN  Append(ds, Decision(sym, latest_signal, current_price,
                                 ApplyRiskManagement(latest_signal, sym, current_price,
                                                     acct, ps, maxsize)))

\* make_decision lines 130-151: create the strategy (a failure returns []) and
\* read the account information once.
MakeDecisionBegin ==
    /\ td_pc = "idle"
    /\ \E created \in BOOLEAN, batch \in SymbolBatches, acct \in AccountInfos :
          IF created
          THEN /\ td_pc' = "deciding"
               /\ td_symbols' = batch
               /\ account_info' = acct
               /\ decisions' = <<>>
          ELSE /\ decisions' = <<>>
               /\ UNCHANGED <<td_pc, td_symbols, account_info>>
    /\ results' = <<>>
    /\ UNCHANGED <<ex_positions, ex_trades, max_position_size>>
    /\ UNCHANGED <<btVars, gridVars, runVars>>
    /\ UNCHANGED <<indVars, stratVars>>

\* make_decision lines 154-190: one iteration of the symbol loop.  Empty market
\* data skips the symbol; an exception while processing it is logged and skipped.
MakeDecisionSymbol ==
    /\ td_pc = "deciding"
    /\ td_symbols # <<>>
    /\ \E fetched \in {"empty", "raises", "ok"}, sig \in SignalSet, p \in LivePriceSet :
          decisions' = DecideSymbol(decisions, Head(td_symbols),
                                    IF fetched = "empty" THEN NoBars ELSE OneBar(p, sig),
                                    fetched = "raises", account_info, ex_positions,
                                    max_position_size)
    /\ td_symbols' = Tail(td_symbols)
    /\ UNCHANGED <<ex_positions, ex_trades, max_position_size, td_pc, account_info,
                   results>>
    /\ UNCHANGED <<btVars, gridVars, runVars>>
    /\ UNCHANGED <<indVars, stratVars>>

\* make_decision line 192: return decisions; the account_info local is dropped.
MakeDecisionReturn ==
    /\ td_pc = "deciding"
    /\ td_symbols = <<>>
    /\ td_pc' = "idle"
    /\ account_info' = <<>>
    /\ UNCHANGED <<ex_positions, ex_trades, max_position_size, td_symbols, decisions,
                   results>>
    /\ UNCHANGED <<btVars, gridVars, runVars>>
    /\ UNCHANGED <<indVars, stratVars>>

\* TradeDecision.execute_decisions on the batch make_decision returned.
ExecuteDecisions ==
    /\ td_pc = "idle"
    /\ decisions # <<>>
    /\ Len(ex_trades) + Len(OrdersOf(decisions)) <= MaxTrades
    /\ \E outcomes \in SeqsOfLen(BrokerOutcomes, Len(OrdersOf(decisions))) :
          LET st == ExecuteOrderList(
                      [positions |-> ex_positions, trades |-> ex_trades, results |-> <<>>],
                      OrdersOf(decisions), outcomes)
          IN  /\ ex_positions' = st.positions
              /\ ex_trades' = st.trades
              /\ results' = st.results
    /\ decisions' = <<>>
    /\ UNCHANGED <<max_position_size, td_pc, td_symbols, account_info>>
    /\ UNCHANGED <<btVars, gridVars, runVars>>
    /\ UNCHANGED <<indVars, stratVars>>

\* TradeExecutor.place_order called directly by the owner of the executor, between
\* two calls of the decision maker (the program is single-threaded).
PlaceOrderDirect ==
    /\ td_pc = "idle"
    /\ Len(ex_trades) < MaxTrades
    /\ \E sym \in Symbols, side \in {"BUY", "SELL"}, amt \in OrderAmountSet,
          outcome \in BrokerOutcomes :
          LET r == PlaceOrder([positions |-> ex_positions, trades |-> ex_trades],
                              [symbol |-> sym, side |-> side, order_type |-> "MARKET",
                               amount |-> amt, price |-> "None"], outcome)
          IN  /\ ex_positions' = r.positions
              /\ ex_trades' = r.trades
    /\ UNCHANGED <<max_position_size, td_pc, td_symbols, account_info, decisions, results>>
    /\ UNCHANGED <<btVars, gridVars, runVars>>
    /\ UNCHANGED <<indVars, stratVars>>

\* TradeExecutor.place_order called by another thread or task of the caller while
\* a make_decision batch is between two symbols: the executor is shared by
\* reference (self.trade_executor) and nothing locks or copies it.
PlaceOrderInterleaved ==
    /\ td_pc = "deciding"
    /\ Len(ex_trades) < MaxTrades
    /\ \E sym \in Symbols, side \in {"BUY", "SELL"}, amt \in OrderAmountSet,
          outcome \in BrokerOutcomes :
          LET r == PlaceOrder([positions |-> ex_positions, trades |-> ex_trades],
                              [symbol |-> sym, side |-> side, order_type |-> "MARKET",
                               amount |-> amt, price |-> "None"], outcome)
          IN  /\ ex_positions' = r.positions
              /\ ex_trades' = r.trades
    /\ UNCHANGED <<max_position_size, td_pc, td_symbols, account_info, decisions, results>>
    /\ UNCHANGED <<btVars, gridVars, runVars>>
    /\ UNCHANGED <<indVars, stratVars>>

\* TradeDecision.set_risk_params
SetRiskParams ==
    /\ td_pc = "idle"
    /\ \E m \in MaxPositionSizeSet : max_position_size' = m
    /\ UNCHANGED <<ex_positions, ex_trades, td_pc, td_symbols, account_info, decisions,
                   results>>
    /\ UNCHANGED <<btVars, gridVars, runVars>>
    /\ UNCHANGED <<indVars, stratVars>>

\* TradeExecutor.__init__ and TradeDecision.__init__
RiskInit ==
    /\ ex_positions = <<>>
    /\ ex_trades = <<>>
    /\ max_position_size = Frac(1, 10)
    /\ td_pc = "idle"
    /\ td_symbols = <<>>
    /\ account_info = <<>>
    /\ decisions = <<>>
    /\ results = <<>>

\* No backtest is running.
BacktestIdle ==
    /\ kind = "none"
    /\ close = <<>>
    /\ signal = <<>>
    /\ initial_capital = Zero
    /\ position_size = One
    /\ commission = Zero
    /\ bt_pc = "idle"
    /\ bt_i = 0
    /\ capital = Zero
    /\ position = Zero
    /\ entry_price = Zero
    /\ trades = <<>>
    /\ cap_col = <<>>
    /\ pos_col = <<>>
    /\ equity_col = <<>>
    /\ final_equity = Zero
    /\ grid_args = [upper_price |-> Zero, lower_price |-> Zero, grid_num |-> 0]
    /\ grid_prices = <<>>
    /\ shares_per_grid = Zero
    /\ grid_position = <<>>
    /\ positions = <<>>

(***************************************************************************)
(* Properties of the live decision path                                    *)
(***************************************************************************)
\* A step of make_decision's loop that appended a decision, and that decision.
Decided ==
    td_pc = "deciding" /\ Len(decisions') = Len(decisions) + 1

NewDecision ==
    decisions'[Len(decisions')]

\* What every step of execute_decisions does to the decision maker: the batch the
\* caller held is consumed while td_pc stays idle.  (A make_decision that fails
\* to create its strategy does the same, so this is necessary, not sufficient.)
ExecutedBatch ==
    td_pc = "idle" /\ td_pc' = "idle" /\ decisions # <<>> /\ decisions' = <<>>

\* The inputs the new decision was evaluated on.
EvalCap ==
    RMul(TotalAssets(account_info), max_position_size)

EvalPosition ==
    PositionOf(ex_positions, NewDecision.symbol)

EvalValue ==
    RMul(EvalPosition, NewDecision.current_price)

\* C7: a Buy is rejected with (False, 0) whenever position*price >= cap, where
\* cap = total_assets * max_position_size; otherwise the quantity is
\* (cap - position*price)/price and it executes only if quantity*price reaches the
\* minimum notional, so an executed Buy never takes the position value above cap.
C7_BuyWithinCap ==
    [][Decided /\ NewDecision.signal = 1 =>
        /\ NewDecision.side = "BUY"
        /\ (RGe(EvalValue, EvalCap) =>
               ~NewDecision.execute_trade /\ NewDecision.trade_amount = Zero)
        /\ (NewDecision.execute_trade =>
               /\ NewDecision.trade_amount =
                     RDiv(RSub(EvalCap, EvalValue), NewDecision.current_price)
               /\ RGe(RMul(NewDecision.trade_amount, NewDecision.current_price),
                      R(MinNotional))
               /\ RLe(RMul(RAdd(EvalPosition, NewDecision.trade_amount),
                           NewDecision.current_price), EvalCap))
        /\ (~NewDecision.execute_trade => NewDecision.trade_amount = Zero)
        /\ (RLt(EvalValue, EvalCap) /\ RGt(TotalAssets(account_info), Zero)
               /\ RGe(RSub(EvalCap, EvalValue), R(MinNotional)) =>
               NewDecision.execute_trade)]_vars

\* C7 witness: total assets 500, fraction 1/10, a position of 5 worth 50 at
\* price 10 sits at the cap and the Buy is rejected.
C7_Witness ==
    /\ td_pc = "deciding"
    /\ max_position_size = Frac(1, 10)
    /\ TotalAssets(account_info) = R(500)
    /\ \E k \in 1..Len(decisions) :
          /\ decisions[k].signal = 1
          /\ decisions[k].current_price = R(10)
          /\ PositionOf(ex_positions, decisions[k].symbol) = R(5)
          /\ ~decisions[k].execute_trade

\* C8 (as claimed): a Sell is rejected when the recorded quantity is <= 0 and
\* otherwise returns (True, q) with q the full position.
C8_SellFullPosition ==
    [][Decided /\ NewDecision.signal = -1 =>
        /\ (RLe(EvalPosition, Zero) =>
               ~NewDecision.execute_trade /\ NewDecision.trade_amount = Zero)
        /\ (RGt(EvalPosition, Zero) =>
               NewDecision.execute_trade /\ NewDecision.trade_amount = EvalPosition)]_vars

\* C8 (amended): a Sell is rejected when the recorded quantity is <= 0 or the
\* account's total assets are <= 0; otherwise it returns (True, q) with q the
\* full position, never a part of it.
C8_SellFullPositionFunded ==
    [][Decided /\ NewDecision.signal = -1 =>
        /\ NewDecision.side = "SELL"
        /\ (RLe(EvalPosition, Zero) \/ RLe(TotalAssets(account_info), Zero) =>
               ~NewDecision.execute_trade /\ NewDecision.trade_amount = Zero)
        /\ (RGt(EvalPosition, Zero) /\ RGt(TotalAssets(account_info), Zero) =>
               NewDecision.execute_trade /\ NewDecision.trade_amount = EvalPosition)]_vars

\* C8 witness: a Sell decision that executes with the whole position of 5.
C8_Witness ==
    /\ td_pc = "deciding"
    /\ \E k \in 1..Len(decisions) :
          /\ decisions[k].signal = -1
          /\ decisions[k].execute_trade
          /\ decisions[k].trade_amount = R(5)
          /\ PositionOf(ex_positions, decisions[k].symbol) = R(5)

AllHold(ds) ==
    \A k \in 1..Len(ds) : ds[k].signal = 0

\* C9: a Hold signal never executes: its decision is (False, 0) with side HOLD
\* for every account state and price, and executing a batch of Hold decisions
\* creates no order and leaves the executor's positions and trades unchanged.
C9_HoldNeverExecutes ==
    /\ [][Decided /\ NewDecision.signal = 0 =>
            /\ ~NewDecision.execute_trade
            /\ NewDecision.trade_amount = Zero
            /\ NewDecision.side = "HOLD"]_vars
    /\ [][/\ ExecutedBatch /\ AllHold(decisions)
          /\ ~(results' = <<>> /\ UNCHANGED <<ex_positions, ex_trades>>)
          => ~ExecuteDecisions]_vars

\* C9 witness: a complete batch of two Hold decisions taken on a funded account
\* that already holds a position.
C9_Witness ==
    /\ td_pc = "deciding"
    /\ td_symbols = <<>>
    /\ Len(decisions) = 2
    /\ AllHold(decisions)
    /\ \A k \in 1..Len(decisions) :
          decisions[k].side = "HOLD" /\ ~decisions[k].execute_trade
    /\ RGt(TotalAssets(account_info), Zero)
    /\ \E sym \in Symbols : RGt(PositionOf(ex_positions, sym), Zero)


\* C20: in a make_decision batch every requested symbol, also one whose market
\* data is empty or whose processing raises, leaves the batch running, leaves the
\* entries of the other symbols as they are and adds its own entry to the result.
C20_OneEntryPerSymbol ==
    [][MakeDecisionSymbol =>
          /\ td_pc' = "deciding"
          /\ td_symbols' = Tail(td_symbols)
          /\ SubSeq(decisions', 1, Len(decisions)) = decisions
          /\ Len(decisions') = Len(decisions) + 1
          /\ decisions'[Len(decisions')].symbol = Head(td_symbols)]_vars

\* The orders a caller of place_order may pass.
DirectOrders ==
    {[symbol |-> sym, side |-> side, order_type |-> "MARKET", amount |-> amt,
      price |-> "None"] : sym \in Symbols, side \in {"BUY", "SELL"},
                          amt \in OrderAmountSet}

\* The change of the recorded position of one symbol that a list of recorded
\* trades accounts for: +amount for each BUY, -amount for each SELL.
RECURSIVE SignedAmount(_, _)
SignedAmount(ts, sym) ==
    IF ts = <<>> THEN Zero
    ELSE RAdd(IF Head(ts).symbol # sym THEN Zero
              ELSE IF Head(ts).side = "BUY" THEN Head(ts).amount
              ELSE RSub(Zero, Head(ts).amount),
              SignedAmount(Tail(ts), sym))

\* The trades a step appended to the history.
AppendedTrades ==
    SubSeq(ex_trades', Len(ex_trades) + 1, Len(ex_trades'))

\* The results of a step of execute_order_list that carry an order_id.
AcceptedResults ==
    {k \in 1..Len(results') :
        "result" \in DOMAIN results'[k] /\ "order_id" \in DOMAIN results'[k].result}

\* C30: place_order changes the recorded positions and the trade history only
\* when the broker result carries an order_id.  With no API for the symbol, a
\* raising broker call or a result without order_id both are unchanged and a
\* value (the error or the result) is returned; on acceptance exactly one trade
\* is appended and only that symbol's position changes, by +amount for BUY and
\* -amount for SELL.  The same holds order by order in execute_order_list.
C30_OrderBookkeeping ==
    /\ [](\A o \in DirectOrders, outcome \in BrokerOutcomes :
            LET st == [positions |-> ex_positions, trades |-> ex_trades]
                r == PlaceOrder(st, o, outcome)
            IN  IF outcome = "ok"
                THEN /\ "order_id" \in DOMAIN r.result
                     /\ Len(r.trades) = Len(st.trades) + 1
                     /\ SubSeq(r.trades, 1, Len(st.trades)) = st.trades
                     /\ r.trades[Len(r.trades)].symbol = o.symbol
                     /\ r.trades[Len(r.trades)].side = o.side
                     /\ r.trades[Len(r.trades)].amount = o.amount
                     /\ r.trades[Len(r.trades)].order_id = r.result.order_id
                     /\ DOMAIN r.positions = DOMAIN st.positions \cup {o.symbol}
                     /\ \A s \in DOMAIN st.positions \ {o.symbol} :
                           r.positions[s] = st.positions[s]
                     /\ r.positions[o.symbol] =
                           IF o.side = "BUY"
                           THEN RAdd(PositionOf(st.positions, o.symbol), o.amount)
                           ELSE RSub(PositionOf(st.positions, o.symbol), o.amount)
                ELSE /\ "order_id" \notin DOMAIN r.result
                     /\ r.positions = st.positions
                     /\ r.trades = st.trades)
    /\ [][/\ (/\ ex_trades' # ex_trades \/ ex_positions' # ex_positions
              /\ PlaceOrderDirect \/ ExecuteDecisions)
             => /\ Len(ex_trades') >= Len(ex_trades)
                /\ SubSeq(ex_trades', 1, Len(ex_trades)) = ex_trades
                /\ \A s \in Symbols :
                      PositionOf(ex_positions', s) =
                         RAdd(PositionOf(ex_positions, s), SignedAmount(AppendedTrades, s))
                /\ (AppendedTrades = <<>> => ex_positions' = ex_positions)
          /\ (/\ ExecutedBatch
              /\ ~(/\ Len(results') = Len(OrdersOf(decisions))
                   /\ Len(AppendedTrades) = Cardinality(AcceptedResults)))
             => ~ExecuteDecisions
          /\ Len(ex_trades') > Len(ex_trades) + 1 => ~PlaceOrderDirect]_vars

\* C30 witness: two accepted orders, a BUY of one symbol and a SELL of the other,
\* are the whole history and the recorded positions are +amount and -amount.
C30_Witness ==
    /\ Len(ex_trades) = 2
    /\ \E a, b \in Symbols :
          /\ a # b
          /\ \E i, j \in 1..2 :
                /\ ex_trades[i].symbol = a /\ ex_trades[i].side = "BUY"
                /\ ex_trades[j].symbol = b /\ ex_trades[j].side = "SELL"
                /\ ex_positions = (a :> ex_trades[i].amount)
                                     @@ (b :> RSub(Zero, ex_trades[j].amount))

\* The decision d is the one make_decision produces on the account information
\* acct and the positions ps: nothing has moved the books since d was evaluated.
EvaluatedOn(d, acct, ps) ==
    d = Decision(d.symbol, d.signal, d.current_price,
                 ApplyRiskManagement(d.signal, d.symbol, d.current_price, acct, ps,
                                     max_position_size))

\* The order built from decision d was accepted by the broker in this step.
ExecutedOk(d) ==
    \E k \in 1..Len(results') :
        /\ "result" \in DOMAIN results'[k]
        /\ results'[k].order.symbol = d.symbol
        /\ "order_id" \in DOMAIN results'[k].result

EvaluationOf(sym, sig, p, acct, ps, maxsize) ==
    Decision(sym, sig, R(p), ApplyRiskManagement(sig, sym, R(p), acct, ps, maxsize))

\* C21: within one make_decision batch the total assets and the symbol's current
\* position are read from a snapshot captured before the first symbol is
\* evaluated, so a place_order that interleaves with the batch changes no
\* decision of that batch: every symbol still to be evaluated gets, for every
\* signal and price, the decision it would have got before the order.
C21_BatchReadsOneSnapshot ==
    [][PlaceOrderInterleaved =>
        \A k \in 1..Len(td_symbols), sig \in SignalSet, p \in LivePriceSet :
            EvaluationOf(td_symbols[k], sig, p, account_info', ex_positions',
                         max_position_size')
               = EvaluationOf(td_symbols[k], sig, p, account_info, ex_positions,
                              max_position_size)]_vars

\* The backtest on the series of the state has ended, by returning or by raising.
BacktestEnded ==
    kind # "none" /\ bt_pc \in {"done", "raised", "config_error"}

\* C23: given an empty bar series the pipeline ends with a failure outcome and no
\* exception escapes: make_decision produces no executable decision for the
\* symbol, whatever the account and the books, and backtest_strategy returns a
\* record carrying an error, never a backtest result.
C23_EmptySeriesFails ==
    (kind # "none" /\ Len(close) = 0) =>
        /\ bt_pc # "done"
        /\ BacktestEnded =>
              /\ DOMAIN BacktestStrategyResult = {"error"}
              /\ \A sym \in Symbols, acct \in AccountInfos, raises \in BOOLEAN :
                    LET ds == DecideSymbol(decisions, sym,
                                           [close |-> close, signal |-> signal], raises,
                                           acct, ex_positions, max_position_size)
                    IN  \A k \in 1..Len(ds) :
                           ds[k].symbol = sym => ~ds[k].execute_trade

\* C23 witness: StrategyBase.backtest on an empty series has raised, and
\* make_decision on the same series and a funded account decides nothing.
C23_Witness ==
    /\ kind = "base"
    /\ Len(close) = 0
    /\ bt_pc = "raised"
    /\ "error" \in DOMAIN BacktestStrategyResult
    /\ DecideSymbol(<<>>, "BTCUSDT", [close |-> close, signal |-> signal], FALSE,
                    "binance" :> Assets(500), ex_positions, max_position_size) = <<>>

(***************************************************************************)
(* MACD indicator: calculate and get_signal(signal_type='cross')           *)
(***************************************************************************)
MaxIndBars ==
    4

IndPriceSet ==
    {10, 11, 12}

\* (fast_period, slow_period, signal_period) triples the indicator is built with.
MacdArgsSet ==
    [fast : {1, 3}, slow : {3}, signal : {1, 3}]

\* A missing value (NaN) of a float column; every comparison with it is false.
NaN ==
    <<0, 0>>

IsNum(x) ==
    x[2] # 0

FGt(x, y) ==
    IsNum(x) /\ IsNum(y) /\ RGt(x, y)

FLt(x, y) ==
    IsNum(x) /\ IsNum(y) /\ RLt(x, y)

FGe(x, y) ==
    IsNum(x) /\ IsNum(y) /\ RGe(x, y)

FLe(x, y) ==
    IsNum(x) /\ IsNum(y) /\ RLe(x, y)

\* Series.ewm(span=span, adjust=False).mean(): y[0] = x[0],
\* y[t] = (1 - alpha) * y[t-1] + alpha * x[t] with alpha = 2 / (span + 1).
RECURSIVE Ewm(_, _)
Ewm(x, span) ==
    IF Len(x) <= 1 THEN x
    ELSE LET alpha == Frac(2, span + 1)
             prev == Ewm(SubSeq(x, 1, Len(x) - 1), span)
         IN  Append(prev, RAdd(RMul(RSub(One, alpha), prev[Len(prev)]),
                               RMul(alpha, x[Len(x)])))

\* Series.shift(1): every value moves one bar later, bar 0 gets no value.
Shift1(x) ==
    [k \in 1..Len(x) |-> IF k = 1 THEN NaN ELSE x[k - 1]]

\* Column-wise a - b.
ColSub(a, b) ==
    [k \in 1..Len(a) |-> RSub(a[k], b[k])]

\* df[name] = col on a copy of df.
WithColumn(df, name, col) ==
    [c \in (DOMAIN df) \cup {name} |-> IF c = name THEN col ELSE df[c]]

\* MACD.calculate lines 109-126.
MacdCalculate(df, a) ==
    LET macd == ColSub(Ewm(df["close"], a.fast), Ewm(df["close"], a.slow))
        sig == Ewm(macd, a.signal)
    IN  WithColumn(WithColumn(WithColumn(df, "macd", macd), "macd_signal", sig),
                   "macd_hist", ColSub(macd, sig))

\* Variant: the current-bar comparison of the golden cross is not strict.
GoldenCross_NonStrict(m, sg, k) ==
    FGe(m[k], sg[k]) /\ FLe(Shift1(m)[k], Shift1(sg)[k])

\* Lines 150-151: (macd > macd_signal) & (macd.shift(1) <= macd_signal.shift(1))
GoldenCross(m, sg, k) ==
    FGt(m[k], sg[k]) /\ FLe(Shift1(m)[k], Shift1(sg)[k])

\* Lines 154-155: (macd < macd_signal) & (macd.shift(1) >= macd_signal.shift(1))
DeathCross(m, sg, k) ==
    FLt(m[k], sg[k]) /\ FGe(Shift1(m)[k], Shift1(sg)[k])

\* Lines 147-155: the column starts at 0, golden crosses are set to 1, then death
\* crosses are set to -1 (the later assignment wins).
MacdCrossColumn(m, sg) ==
    LET c0 == [k \in 1..Len(m) |-> 0]
        c1 == [k \in 1..Len(m) |-> IF GoldenCross(m, sg, k) THEN 1 ELSE c0[k]]
    IN  [k \in 1..Len(m) |-> IF DeathCross(m, sg, k) THEN -1 ELSE c1[k]]

\* MACD.get_signal(signal_type='cross') on a frame that holds the macd columns.
MacdCrossSignal(df) ==
    WithColumn(df, "macd_cross_signal", MacdCrossColumn(df["macd"], df["macd_signal"]))

\* MACD.calculate(data): returns an augmented copy.
MacdCalculateCall ==
    /\ ind_pc = "ready"
    /\ df_calc' = MacdCalculate(df_in, macd_args)
    /\ ind_pc' = "calculated"
    /\ UNCHANGED <<macd_args, df_in, df_sig>>
    /\ UNCHANGED <<btVars, gridVars, riskVars, runVars, stratVars>>

\* MACD.get_signal(data) on the caller's raw frame: 'macd' is absent, so the
\* indicator is calculated first (on a copy) and the signal is added to that copy.
MacdGetSignalRaw ==
    /\ ind_pc = "ready"
    /\ df_sig' = MacdCrossSignal(MacdCalculate(df_in, macd_args))
    /\ ind_pc' = "signalled"
    /\ UNCHANGED <<macd_args, df_in, df_calc>>
    /\ UNCHANGED <<btVars, gridVars, riskVars, runVars, stratVars>>

\* MACD.get_signal(data) on the frame calculate returned: 'macd' is present, the
\* signal column is written into that very frame, which is also returned.
MacdGetSignalCalculated ==
    /\ ind_pc = "calculated"
    /\ df_calc' = MacdCrossSignal(df_calc)
    /\ df_sig' = df_calc'
    /\ ind_pc' = "signalled"
    /\ UNCHANGED <<macd_args, df_in>>
    /\ UNCHANGED <<btVars, gridVars, riskVars, runVars, stratVars>>

EmptyFrame ==
    [c \in {} |-> <<>>]

IndInit ==
    /\ macd_args \in MacdArgsSet
    /\ df_in \in {[close |-> [k \in 1..Len(c) |-> R(c[k])]] :
                     c \in SeqsUpTo(IndPriceSet, MaxIndBars)}
    /\ df_calc = EmptyFrame
    /\ df_sig = EmptyFrame
    /\ ind_pc = "ready"

\* No indicator is being computed.
IndIdle ==
    /\ macd_args = [fast |-> 0, slow |-> 0, signal |-> 0]
    /\ df_in = EmptyFrame
    /\ df_calc = EmptyFrame
    /\ df_sig = EmptyFrame
    /\ ind_pc = "idle"

(***************************************************************************)
(* Float columns: missing values, infinities, rolling windows               *)
(***************************************************************************)
\* x / 0.0 for a positive x.
PosInf ==
    <<1, 0>>

\* x / 0.0 for a negative x.
NegInf ==
    <<-1, 0>>

FAdd(x, y) ==
    IF IsNum(x) /\ IsNum(y) THEN RAdd(x, y) ELSE NaN

FSub(x, y) ==
    IF IsNum(x) /\ IsNum(y) THEN RSub(x, y) ELSE NaN

FMul(x, y) ==
    IF IsNum(x) /\ IsNum(y) THEN RMul(x, y) ELSE NaN

\* Float division of two finite or missing values: 0/0 is NaN, x/0 is +-inf.
FDiv(x, y) ==
    IF ~(IsNum(x) /\ IsNum(y)) THEN NaN
    ELSE IF y = Zero
         THEN IF x = Zero THEN NaN ELSE IF RGt(x, Zero) THEN PosInf ELSE NegInf
         ELSE RDiv(x, y)

\* The values of bars i-w+1 .. i (1-based) of a column; <<>> before a full window.
WindowOf(x, k, w) ==
    IF k < w THEN <<>> ELSE [j \in 1..w |-> x[k - w + j]]

AllNum(xs) ==
    \A j \in 1..Len(xs) : IsNum(xs[j])

\* Series.rolling(window=w).mean(): no value until w observations are in the window.
RollingMean(x, w) ==
    [k \in 1..Len(x) |->
        IF k < w \/ ~AllNum(WindowOf(x, k, w)) THEN NaN ELSE Mean(WindowOf(x, k, w))]

\* Series.rolling(window=w).sum()
RollingSum(x, w) ==
    [k \in 1..Len(x) |->
        IF k < w \/ ~AllNum(WindowOf(x, k, w)) THEN NaN ELSE SumSeq(WindowOf(x, k, w))]

\* Series.rolling(window=w).std(): sample deviation, undefined for a window of one.
RollingStd(x, w) ==
    [k \in 1..Len(x) |->
        IF k < w \/ w < 2 \/ ~AllNum(WindowOf(x, k, w)) THEN NaN
        ELSE RSqrt(SampleVar(WindowOf(x, k, w)))]

SeqMax(xs) ==
    CHOOSE m \in {xs[j] : j \in 1..Len(xs)} : \A j \in 1..Len(xs) : RGe(m, xs[j])

SeqMin(xs) ==
    CHOOSE m \in {xs[j] : j \in 1..Len(xs)} : \A j \in 1..Len(xs) : RLe(m, xs[j])

\* Series.rolling(window=w).max()
RollingMax(x, w) ==
    [k \in 1..Len(x) |->
        IF k < w \/ ~AllNum(WindowOf(x, k, w)) THEN NaN ELSE SeqMax(WindowOf(x, k, w))]

\* Series.rolling(window=w).min()
RollingMin(x, w) ==
    [k \in 1..Len(x) |->
        IF k < w \/ ~AllNum(WindowOf(x, k, w)) THEN NaN ELSE SeqMin(WindowOf(x, k, w))]

\* Series.diff(): no value at bar 0.
Diff(x) ==
    [k \in 1..Len(x) |-> IF k = 1 THEN NaN ELSE FSub(x[k], x[k - 1])]

\* Element-wise binary operation on two columns of equal length.
ColAdd(a, b) ==
    [k \in 1..Len(a) |-> FAdd(a[k], b[k])]

ColMinus(a, b) ==
    [k \in 1..Len(a) |-> FSub(a[k], b[k])]

ColDiv(a, b) ==
    [k \in 1..Len(a) |-> FDiv(a[k], b[k])]

ColScale(a, c) ==
    [k \in 1..Len(a) |-> FMul(a[k], c)]

\* f"{name}_{window}"
ColumnName(name, w) ==
    name \o "_" \o ToString(w)

HasColumn(df, name) ==
    name \in DOMAIN df

\* len(data)
FrameLen(df) ==
    IF HasColumn(df, "close") THEN Len(df["close"]) ELSE 0

(***************************************************************************)
(* Indicators: calculate and get_signal of each kind                        *)
(*                                                                          *)
(* An indicator configuration is [type, params, signal_params].  The type   *)
(* is one of the INDICATOR_* constants, kept here by name.  price_key is    *)
(* always 'close'.  The KDJ indicator and the divergence signal types are   *)
(* not part of the configurations analysed below.                           *)
(***************************************************************************)
\* Series comparison + shift(1): 1 where a crosses above b, -1 where it crosses below.
\* The second assignment (the downward cross) is applied last.
CrossColumn(a, b) ==
    [k \in 1..Len(a) |->
        IF FLt(a[k], b[k]) /\ FGe(Shift1(a)[k], Shift1(b)[k]) THEN -1
        ELSE IF FGt(a[k], b[k]) /\ FLe(Shift1(a)[k], Shift1(b)[k]) THEN 1
        ELSE 0]

\* SimpleMovingAverage.calculate
SmaCalculate(df, p) ==
    WithColumn(df, ColumnName("ma", p.window), RollingMean(df["close"], p.window))

\* ExponentialMovingAverage.calculate
EmaCalculate(df, p) ==
    WithColumn(df, ColumnName("ema", p.window), Ewm(df["close"], p.window))

\* MovingAverageBase.get_signal for the indicator called name ('ma' or 'ema').
\* With signal_type 'cross' and a short column that is not in the frame, line 99
\* calls the subclass constructor with three positional arguments; both
\* subclasses take (window, price_key) only, so the call raises TypeError.
MovingAverageGetSignal(name, df, p, sp) ==
    LET column_name == ColumnName(name, p.window)
        d1 == IF HasColumn(df, column_name) THEN df
              ELSE IF name = "ma" THEN SmaCalculate(df, p) ELSE EmaCalculate(df, p)
        signal_column == name \o "_signal"
    IN  IF sp.signal_type = "cross" /\ "short_window" \in DOMAIN sp
        THEN LET short_column == ColumnName(name, sp.short_window)
             IN  IF ~HasColumn(d1, short_column)
                 THEN [raised |-> TRUE, df |-> d1]
                 ELSE [raised |-> FALSE,
                       df |-> WithColumn(d1, signal_column,
                                         CrossColumn(d1[short_column], d1[column_name]))]
        ELSE IF sp.signal_type = "trend"
        THEN [raised |-> FALSE,
              df |-> WithColumn(d1, signal_column,
                                CrossColumn(d1["close"], d1[column_name]))]
        ELSE [raised |-> FALSE, df |-> d1]

\* gain[gain < 0] = 0
GainOf(delta) ==
    [k \in 1..Len(delta) |->
        IF FLt(delta[k], Zero) THEN Zero ELSE delta[k]]

\* loss[loss > 0] = 0; loss = -loss
LossOf(delta) ==
    [k \in 1..Len(delta) |->
        IF FGt(delta[k], Zero) THEN Zero ELSE FSub(Zero, delta[k])]

\* 100 - 100 / (1 + avg_gain / avg_loss): 100 when only the average loss is zero,
\* no value when both averages are zero or missing.
RsiOf(avg_gain, avg_loss) ==
    LET rs == FDiv(avg_gain, avg_loss)
    IN  IF rs = NaN THEN NaN
        ELSE IF rs = PosInf THEN R(100)
        ELSE RSub(R(100), RDiv(R(100), RAdd(One, rs)))

\* RSI.calculate
RsiCalculate(df, p) ==
    LET delta == Diff(df["close"])
        avg_gain == RollingMean(GainOf(delta), p.window)
        avg_loss == RollingMean(LossOf(delta), p.window)
    IN  WithColumn(df, ColumnName("rsi", p.window),
                   [k \in 1..Len(delta) |-> RsiOf(avg_gain[k], avg_loss[k])])

\* The 'level' column of RSI.get_signal: rebound out of the oversold zone is 1,
\* fall out of the overbought zone is -1 (assigned last).
RsiLevelColumn(rsi, overbought, oversold) ==
    [k \in 1..Len(rsi) |->
        IF FLt(rsi[k], overbought) /\ FGe(Shift1(rsi)[k], overbought) THEN -1
        ELSE IF FGt(rsi[k], oversold) /\ FLe(Shift1(rsi)[k], oversold) THEN 1
        ELSE 0]

\* RSI.get_signal(signal_type='level')
RsiGetSignal(df, p, sp) ==
    LET column_name == ColumnName("rsi", p.window)
        d1 == IF HasColumn(df, column_name) THEN df ELSE RsiCalculate(df, p)
    IN  IF sp.signal_type = "level"
        THEN WithColumn(d1, column_name \o "_level_signal",
                        RsiLevelColumn(d1[column_name], sp.overbought, sp.oversold))
        ELSE d1

\* BollingerBands.calculate
BollingerCalculate(df, p) ==
    LET price == df["close"]
        ma == RollingMean(price, p.window)
        std == RollingStd(price, p.window)
        upper == ColAdd(ma, ColScale(std, p.std_dev))
        lower == ColMinus(ma, ColScale(std, p.std_dev))
        d1 == WithColumn(WithColumn(df, "bollinger_ma", ma), "bollinger_std", std)
        d2 == WithColumn(WithColumn(d1, "bollinger_upper", upper), "bollinger_lower", lower)
        d3 == WithColumn(d2, "bollinger_bandwidth", ColDiv(ColMinus(upper, lower), ma))
    IN  WithColumn(d3, "bollinger_b", ColDiv(ColMinus(price, lower), ColMinus(upper, lower)))

\* 'breakout': the price crosses above the upper band (1) or below the lower band (-1).
BollingerBreakoutColumn(price, upper, lower) ==
    [k \in 1..Len(price) |->
        IF FLt(price[k], lower[k]) /\ FGe(Shift1(price)[k], Shift1(lower)[k]) THEN -1
        ELSE IF FGt(price[k], upper[k]) /\ FLe(Shift1(price)[k], Shift1(upper)[k]) THEN 1
        ELSE 0]

\* 'mean_reversion': the price is at or above the upper band (-1), at or below
\* the lower band (1, assigned last).
BollingerMeanReversionColumn(price, upper, lower) ==
    [k \in 1..Len(price) |->
        IF FLe(price[k], lower[k]) THEN 1
        ELSE IF FGe(price[k], upper[k]) THEN -1
        ELSE 0]

\* BollingerBands.get_signal
BollingerGetSignal(df, p, sp) ==
    LET d1 == IF HasColumn(df, "bollinger_upper") THEN df ELSE BollingerCalculate(df, p)
    IN  IF sp.signal_type = "breakout"
        THEN WithColumn(d1, "bollinger_breakout_signal",
                        BollingerBreakoutColumn(d1["close"], d1["bollinger_upper"],
                                                d1["bollinger_lower"]))
        ELSE IF sp.signal_type = "mean_reversion"
        THEN WithColumn(d1, "bollinger_mean_reversion_signal",
                        BollingerMeanReversionColumn(d1["close"], d1["bollinger_upper"],
                                                     d1["bollinger_lower"]))
        ELSE d1

\* Series.pct_change() * 100
PctChange100(x) ==
    [k \in 1..Len(x) |->
        IF k = 1 THEN NaN ELSE FMul(FDiv(FSub(x[k], x[k - 1]), x[k - 1]), R(100))]

\* VolumeProfile.calculate
VolumeCalculate(df, p) ==
    LET n == Len(df["volume"])
        volume_ma == RollingMean(df["volume"], p.window)
        buying == [k \in 1..n |-> IF RGe(df["close"][k], df["open"][k])
                                   THEN df["volume"][k] ELSE Zero]
        selling == [k \in 1..n |-> IF RLt(df["close"][k], df["open"][k])
                                    THEN df["volume"][k] ELSE Zero]
        d1 == WithColumn(df, "volume_ma", volume_ma)
        d2 == WithColumn(d1, "volume_change", PctChange100(df["volume"]))
        d3 == WithColumn(d2, "volume_ratio", ColDiv(df["volume"], volume_ma))
        d4 == WithColumn(WithColumn(d3, "buying_volume", buying), "selling_volume", selling)
    IN  WithColumn(d4, "buy_sell_ratio",
                   ColDiv(RollingSum(buying, p.window), RollingSum(selling, p.window)))

\* 'surge': volume_ratio above the threshold on a rising bar (1) or a falling bar (-1).
VolumeSurgeColumn(df, volume_surge) ==
    [k \in 1..Len(df["close"]) |->
        IF FGt(df["volume_ratio"][k], volume_surge) /\ RLt(df["close"][k], df["open"][k])
        THEN -1
        ELSE IF FGt(df["volume_ratio"][k], volume_surge)
                /\ RGt(df["close"][k], df["open"][k])
        THEN 1
        ELSE 0]

\* VolumeProfile.get_signal(signal_type='surge')
VolumeGetSignal(df, p, sp) ==
    LET d1 == IF HasColumn(df, "volume_ma") THEN df ELSE VolumeCalculate(df, p)
    IN  IF sp.signal_type = "surge"
        THEN WithColumn(d1, "volume_surge_signal", VolumeSurgeColumn(d1, sp.volume_surge))
        ELSE d1

\* MACD.get_signal(signal_type='cross'): calculates first when 'macd' is missing.
MacdGetSignal(df, p, sp) ==
    LET d1 == IF HasColumn(df, "macd") THEN df ELSE MacdCalculate(df, p)
    IN  IF sp.signal_type = "cross" THEN MacdCrossSignal(d1) ELSE d1

(***************************************************************************)
(* IndicatorFactory: create_indicator, calculate_indicators,                *)
(* get_indicator_signals                                                    *)
(***************************************************************************)
\* The keys of INDICATOR_MAP.
IndicatorTypes ==
    {"INDICATOR_MA", "INDICATOR_EMA", "INDICATOR_MACD", "INDICATOR_RSI",
     "INDICATOR_BOLLINGER", "INDICATOR_KDJ", "INDICATOR_VOLUME"}

\* create_indicator raises ValueError for a type that is not in INDICATOR_MAP.
CreateIndicatorRaises(type) ==
    type \notin IndicatorTypes

\* indicator.calculate(result) of the indicator class registered for the type.
Calculate(type, df, p) ==
    CASE type = "INDICATOR_MA" -> SmaCalculate(df, p)
      [] type = "INDICATOR_EMA" -> EmaCalculate(df, p)
      [] type = "INDICATOR_MACD" -> MacdCalculate(df, p)
      [] type = "INDICATOR_RSI" -> RsiCalculate(df, p)
      [] type = "INDICATOR_BOLLINGER" -> BollingerCalculate(df, p)
      [] type = "INDICATOR_VOLUME" -> VolumeCalculate(df, p)

\* indicator.get_signal(result, **signal_params); raised is TRUE when it throws.
GetSignal(type, df, p, sp) ==
    CASE type = "INDICATOR_MA" -> MovingAverageGetSignal("ma", df, p, sp)
      [] type = "INDICATOR_EMA" -> MovingAverageGetSignal("ema", df, p, sp)
      [] type = "INDICATOR_MACD" -> [raised |-> FALSE, df |-> MacdGetSignal(df, p, sp)]
      [] type = "INDICATOR_RSI" -> [raised |-> FALSE, df |-> RsiGetSignal(df, p, sp)]
      [] type = "INDICATOR_BOLLINGER" ->
            [raised |-> FALSE, df |-> BollingerGetSignal(df, p, sp)]
      [] type = "INDICATOR_VOLUME" -> [raised |-> FALSE, df |-> VolumeGetSignal(df, p, sp)]

\* One pass of the loop of calculate_indicators: an exception of create_indicator
\* is caught and printed, result keeps its value and the loop goes on.
CalculateOne(result, config) ==
    IF CreateIndicatorRaises(config.type) THEN result
    ELSE Calculate(config.type, result, config.params)

RECURSIVE CalculateIndicators(_, _)
CalculateIndicators(data, indicators) ==
    IF indicators = <<>> THEN data
    ELSE CalculateIndicators(CalculateOne(data, Head(indicators)), Tail(indicators))

\* One pass of the loop of get_indicator_signals.  Whether line 110 calculates
\* first or get_signal does makes no difference to result: each get_signal
\* calculates when its own column is missing.  Any exception is caught and printed.
SignalOne(result, config) ==
    IF CreateIndicatorRaises(config.type) THEN result
    ELSE LET r == GetSignal(config.type, result, config.params, config.signal_params)
         IN  IF r.raised THEN result ELSE r.df

RECURSIVE GetIndicatorSignals(_, _)
GetIndicatorSignals(data, indicators) ==
    IF indicators = <<>> THEN data
    ELSE GetIndicatorSignals(SignalOne(data, Head(indicators)), Tail(indicators))

\* StrategyBase.prepare_data
BasePrepareData(data, indicators) ==
    GetIndicatorSignals(CalculateIndicators(data, indicators), indicators)

(***************************************************************************)
(* Strategies: constructors, prepare_data, generate_signals                 *)
(*                                                                          *)
(* A strategy instance is [indicators, params, grid_prices].  The result of *)
(* a method is [error, df, self]: error names the exception that left the   *)
(* method ("" when it returned), df is the returned frame and self the      *)
(* instance after the call.                                                 *)
(***************************************************************************)
\* StrategyBase.add_indicator
IndicatorConfig(type, params, signal_params) ==
    [type |-> type, params |-> params, signal_params |-> signal_params]

MACDCrossStrategy(fast_period, slow_period, signal_period) ==
    [indicators |-> <<IndicatorConfig("INDICATOR_MACD",
                                      [fast |-> fast_period, slow |-> slow_period,
                                       signal |-> signal_period],
                                      [signal_type |-> "cross"])>>,
     params |-> [fast_period |-> fast_period, slow_period |-> slow_period,
                 signal_period |-> signal_period],
     grid_prices |-> <<>>]

MACrossStrategy(fast_period, slow_period, ma_type) ==
    [indicators |-> <<IndicatorConfig(ma_type, [window |-> slow_period],
                                      [signal_type |-> "cross",
                                       short_window |-> fast_period])>>,
     params |-> [fast_period |-> fast_period, slow_period |-> slow_period,
                 ma_type |-> ma_type],
     grid_prices |-> <<>>]

RSIOverboughtStrategy(rsi_period, overbought, oversold) ==
    [indicators |-> <<IndicatorConfig("INDICATOR_RSI", [window |-> rsi_period],
                                      [signal_type |-> "level", overbought |-> overbought,
                                       oversold |-> oversold])>>,
     params |-> [rsi_period |-> rsi_period, overbought |-> overbought,
                 oversold |-> oversold],
     grid_prices |-> <<>>]

BollingerBreakoutStrategy(window, std_dev, breakout_type) ==
    [indicators |-> <<IndicatorConfig("INDICATOR_BOLLINGER",
                                      [window |-> window, std_dev |-> std_dev],
                                      [signal_type |-> breakout_type])>>,
     params |-> [window |-> window, std_dev |-> std_dev, breakout_type |-> breakout_type],
     grid_prices |-> <<>>]

HighLowBreakoutStrategy(lookback_period, breakout_threshold, confirmation_days) ==
    [indicators |-> <<>>,
     params |-> [lookback_period |-> lookback_period,
                 breakout_threshold |-> breakout_threshold,
                 confirmation_days |-> confirmation_days],
     grid_prices |-> <<>>]

VolumeBreakoutStrategy(price_lookback, volume_lookback, price_threshold, volume_threshold) ==
    [indicators |-> <<>>,
     params |-> [price_lookback |-> price_lookback, volume_lookback |-> volume_lookback,
                 price_threshold |-> price_threshold,
                 volume_threshold |-> volume_threshold],
     grid_prices |-> <<>>]

\* GridStrategy.__init__ with valid boundaries.
GridStrategyOf(a) ==
    [indicators |-> <<>>, params |-> a, grid_prices |-> CalculateGridPrices(a)]

\* DynamicGridStrategy.__init__
DynamicGridStrategyOf(a) ==
    [indicators |-> <<>>, params |-> DynParentArgs(a),
     grid_prices |-> CalculateGridPrices(DynParentArgs(a))]

Returned(df, self) ==
    [error |-> "", df |-> df, self |-> self]

Raised(error, df, self) ==
    [error |-> error, df |-> df, self |-> self]

\* HighLowBreakoutStrategy.prepare_data
HighLowPrepareData(self, data) ==
    LET recent_high == RollingMax(data["high"], self.params.lookback_period)
        recent_low == RollingMin(data["low"], self.params.lookback_period)
        threshold == self.params.breakout_threshold
        d1 == WithColumn(WithColumn(data, "recent_high", recent_high),
                         "recent_low", recent_low)
    IN  IF RGt(threshold, Zero)
        THEN WithColumn(WithColumn(d1, "high_with_threshold",
                                   ColScale(recent_high, RAdd(One, threshold))),
                        "low_with_threshold", ColScale(recent_low, RSub(One, threshold)))
        ELSE WithColumn(WithColumn(d1, "high_with_threshold", recent_high),
                        "low_with_threshold", recent_low)

\* Variant: only the current bar is looked at.
AllOver_CurrentBarOnly(col, k, c) ==
    col[k]

\* all(column.iloc[i-c+1:i+1]) at the 1-based bar k = i + 1
AllOver(col, k, c) ==
    \A j \in (k - c + 1)..k : j >= 1 => col[j]

\* HighLowBreakoutStrategy.generate_signals
HighLowGenerateSignals(self, data) ==
    LET required == {"recent_high", "recent_low", "high_with_threshold",
                     "low_with_threshold"}
        d1 == IF required \subseteq DOMAIN data THEN data
              ELSE HighLowPrepareData(self, data)
        n == Len(d1["close"])
        up == [k \in 1..n |-> FGt(d1["close"][k], Shift1(d1["high_with_threshold"])[k])]
        down == [k \in 1..n |-> FLt(d1["close"][k], Shift1(d1["low_with_threshold"])[k])]
        c == self.params.confirmation_days
        sig == IF c <= 1
               THEN [k \in 1..n |-> IF down[k] THEN -1 ELSE IF up[k] THEN 1 ELSE 0]
               ELSE [k \in 1..n |->
                        IF k - 1 < c THEN 0
                        ELSE IF AllOver(down, k, c) THEN -1
                        ELSE IF AllOver(up, k, c) THEN 1
                        ELSE 0]
    IN  WithColumn(WithColumn(WithColumn(d1, "upward_breakout", up),
                              "downward_breakout", down), "signal", sig)

\* VolumeBreakoutStrategy.prepare_data
VolumePrepareData(self, data) ==
    LET price_high == RollingMax(data["high"], self.params.price_lookback)
        volume_ma == RollingMean(data["volume"], self.params.volume_lookback)
        price_threshold == self.params.price_threshold
        d1 == WithColumn(WithColumn(data, "price_high", price_high), "volume_ma", volume_ma)
    IN  WithColumn(d1, "price_high_with_threshold",
                   IF RGt(price_threshold, Zero)
                   THEN ColScale(price_high, RAdd(One, price_threshold))
                   ELSE price_high)

\* VolumeBreakoutStrategy.generate_signals
VolumeGenerateSignals(self, data) ==
    LET required == {"price_high", "volume_ma", "price_high_with_threshold"}
        d1 == IF required \subseteq DOMAIN data THEN data
              ELSE VolumePrepareData(self, data)
        n == Len(d1["close"])
        price_low == RollingMin(d1["low"], self.params.price_lookback)
        price_breakout ==
            [k \in 1..n |-> FGt(d1["close"][k], Shift1(d1["price_high_with_threshold"])[k])]
        volume_breakout ==
            [k \in 1..n |-> FGt(d1["volume"][k],
                                FMul(Shift1(d1["volume_ma"])[k],
                                     self.params.volume_threshold))]
        price_breakdown == [k \in 1..n |-> FLt(d1["close"][k], Shift1(price_low)[k])]
        sig == [k \in 1..n |->
                   IF price_breakdown[k] THEN -1
                   ELSE IF price_breakout[k] /\ volume_breakout[k] THEN 1
                   ELSE 0]
    IN  WithColumn(WithColumn(d1, "signal", sig), "price_low", price_low)

\* GridStrategy.prepare_data
GridPrepareData(self, data) ==
    WithColumn(data, "grid_position",
               [k \in 1..Len(data["close"]) |->
                   GridPositionOf(data["close"][k], self.grid_prices)])

\* DynamicGridStrategy.prepare_data.  The first pass of the loop (i = the
\* volatility window) rewrites the boundaries and grid_prices of the instance and
\* then raises KeyError at line 308: no 'grid_position' column was ever created.
DynamicPrepareData(self, data) ==
    LET w == self.params.volatility_window
        d1 == WithColumn(data, "volatility", RollingStd(data["close"], w))
        spread == FMul(d1["volatility"][w + 1], self.params.volatility_multiplier)
        a == [self.params EXCEPT !.upper_price = RAdd(self.params.center_price, spread),
                                 !.lower_price = RSub(self.params.center_price, spread)]
    IN  IF Len(data["close"]) > w
        THEN Raised("KeyError", data,
                    [self EXCEPT !.params = a, !.grid_prices = CalculateGridPrices(a)])
        ELSE Returned(d1, self)

\* prepare_data of the strategy variant.
PrepareData(variant, self, data) ==
    CASE variant \in {"macd_cross", "ma_cross", "rsi_overbought", "bollinger"} ->
            Returned(BasePrepareData(data, self.indicators), self)
      [] variant = "high_low" -> Returned(HighLowPrepareData(self, data), self)
      [] variant = "volume" -> Returned(VolumePrepareData(self, data), self)
      [] variant = "fixed" -> Returned(GridPrepareData(self, data), self)
      [] variant = "dynamic" -> DynamicPrepareData(self, data)

\* data['signal'] = data[signal_column], ValueError when the column is missing.
SignalFromColumn(self, data, signal_column) ==
    IF ~HasColumn(data, signal_column) THEN Raised("ValueError", data, self)
    ELSE Returned(WithColumn(data, "signal", data[signal_column]), self)

\* Lines 102-115 of GridStrategy.generate_signals on the outcome r of the
\* preparation: without a 'grid_position' column line 106 raises KeyError.
GridSignalsOf(r, data) ==
    IF r.error # "" THEN r
    ELSE IF ~HasColumn(r.df, "grid_position") THEN Raised("KeyError", data, r.self)
    ELSE Returned(WithColumn(WithColumn(r.df, "signal",
                                        GenerateGridSignals(r.df["grid_position"])),
                             "grid_position_change",
                             [k \in 1..Len(r.df["grid_position"]) |->
                                 IF k = 1 THEN NaN
                                 ELSE R(r.df["grid_position"][k]
                                        - r.df["grid_position"][k - 1])]),
                  r.self)

\* GridStrategy.generate_signals, inherited by DynamicGridStrategy: a frame
\* without 'grid_position' is first handed to the prepare_data of the instance.
GridGenerateSignals(variant, self, data) ==
    GridSignalsOf(IF HasColumn(data, "grid_position") THEN Returned(data, self)
                  ELSE IF variant = "dynamic" THEN DynamicPrepareData(self, data)
                  ELSE Returned(GridPrepareData(self, data), self),
                  data)

\* generate_signals of the strategy variant.  MACrossStrategy looks for the column
\* f"{ma_type}_signal", ma_type being an INDICATOR_* constant that is kept here by
\* name; the strategies analysed have fast_period # slow_period, and their
\* prepared frames hold no column whose name ends in "_signal" at all.
GenerateSignals(variant, self, data) ==
    CASE variant = "macd_cross" -> SignalFromColumn(self, data, "macd_cross_signal")
      [] variant = "ma_cross" ->
            SignalFromColumn(self, data, self.params.ma_type \o "_signal")
      [] variant = "rsi_overbought" ->
            SignalFromColumn(self, data,
                             ColumnName("rsi", self.params.rsi_period) \o "_level_signal")
      [] variant = "bollinger" ->
            SignalFromColumn(self, data,
                             "bollinger_" \o self.params.breakout_type \o "_signal")
      [] variant = "high_low" -> Returned(HighLowGenerateSignals(self, data), self)
      [] variant = "volume" -> Returned(VolumeGenerateSignals(self, data), self)
      [] variant \in {"fixed", "dynamic"} -> GridGenerateSignals(variant, self, data)

(***************************************************************************)
(* The signal pipeline: one strategy (or one indicator configuration list)  *)
(* applied to one frame of bars                                             *)
(***************************************************************************)
MaxSigBars ==
    4

\* Close prices of the frames whose other columns do not matter.
SigPriceSet ==
    {10, 11, 12}

\* Close prices, candle directions and volumes of the frames with candles.
CandleCloseSet ==
    {10, 11}

CandleDirSet ==
    {-1, 1}

CandleVolumeSet ==
    {1, 3}

\* One bar: the open lies d below the close, high and low are the candle's ends.
Bar(c, d, v) ==
    [open |-> c - d, high |-> IF d > 0 THEN c ELSE c - d,
     low |-> IF d > 0 THEN c - d ELSE c, close |-> c, volume |-> v]

\* The OHLCV DataFrame of a sequence of bars.
FrameOf(bars) ==
    [col \in {"open", "high", "low", "close", "volume"} |->
        [k \in 1..Len(bars) |-> R(bars[k][col])]]

PriceFrames ==
    {FrameOf(bs) : bs \in SeqsUpTo({Bar(c, 0, 1) : c \in SigPriceSet}, MaxSigBars)}

\* Three price levels, so that two closes in a row can break the previous extreme
\* by more than a tenth.
HighLowCloseSet ==
    {10, 12, 15}

HighLowFrames ==
    {FrameOf(bs) :
        bs \in SeqsUpTo({Bar(c, d, 1) : c \in HighLowCloseSet, d \in CandleDirSet},
                        MaxSigBars)}

VolumeFrames ==
    {FrameOf(bs) :
        bs \in SeqsUpTo({Bar(c, d, v) : c \in CandleCloseSet, d \in CandleDirSet,
                                        v \in CandleVolumeSet}, MaxSigBars)}

\* Volumes that can stay above twice their three-bar average for two bars.
SurgeVolumeSet ==
    {1, 5, 25}

SurgeFrames ==
    {FrameOf(bs) :
        bs \in SeqsUpTo({Bar(10, d, v) : d \in CandleDirSet, v \in SurgeVolumeSet},
                        MaxSigBars)}

\* Close series on which every rolling standard deviation is a rational number.
StdOK(x, w) ==
    \A k \in w..Len(x) : RSqrtExists(SampleVar(WindowOf(x, k, w)))

\* An indicator type that is not a key of INDICATOR_MAP.
UnknownType ==
    "unknown_indicator"

\* A caller of IndicatorFactory that holds a configuration list only.
FactoryCaller(indicators) ==
    [indicators |-> indicators, params |-> <<>>, grid_prices |-> <<>>]

\* The configuration lists handed to IndicatorFactory directly.
FactoryCases ==
    LET ma == IndicatorConfig("INDICATOR_MA", [window |-> 2], [signal_type |-> "trend"])
        ema == IndicatorConfig("INDICATOR_EMA", [window |-> 2], [signal_type |-> "trend"])
        rsi == IndicatorConfig("INDICATOR_RSI", [window |-> 1],
                               [signal_type |-> "level", overbought |-> R(70),
                                oversold |-> R(30)])
        vol == IndicatorConfig("INDICATOR_VOLUME", [window |-> 3],
                               [signal_type |-> "surge", volume_surge |-> R(2)])
        bad == IndicatorConfig(UnknownType, [window |-> 2], [signal_type |-> "trend"])
    IN  {FactoryCaller(cs) : cs \in {<<ma>>, <<ema>>, <<rsi>>, <<vol>>, <<bad, ma>>,
                                     <<ma, bad>>, <<rsi, bad, ema>>}}

\* The strategy instances StrategyFactory.create_strategy builds, by variant.
StrategyCases(variant) ==
    CASE variant = "factory" -> FactoryCases
      [] variant = "macd_cross" ->
            {MACDCrossStrategy(a.fast, a.slow, a.signal) : a \in MacdArgsSet}
      [] variant = "ma_cross" ->
            {MACrossStrategy(2, 3, t) : t \in {"INDICATOR_MA", "INDICATOR_EMA"}}
      [] variant = "rsi_overbought" ->
            {RSIOverboughtStrategy(w, R(70), R(30)) : w \in {1, 2}}
      [] variant = "bollinger" ->
            {BollingerBreakoutStrategy(3, R(2), t) : t \in {"breakout", "mean_reversion"}}
      [] variant = "high_low" ->
            {HighLowBreakoutStrategy(2, Zero, 1), HighLowBreakoutStrategy(2, Zero, 2),
             HighLowBreakoutStrategy(1, Zero, 2),
             HighLowBreakoutStrategy(1, Frac(1, 10), 2)}
      [] variant = "volume" -> {VolumeBreakoutStrategy(2, 2, Zero, Frac(3, 2))}
      [] variant = "fixed" ->
            {GridStrategyOf([upper_price |-> R(12), lower_price |-> R(10), grid_num |-> 2])}
      [] variant = "dynamic" ->
            {DynamicGridStrategyOf([upper_price |-> Zero, lower_price |-> Zero,
                                    grid_num |-> 1, center_price |-> R(10),
                                    volatility_window |-> w,
                                    volatility_multiplier |-> R(2)]) : w \in {2, 3}}

\* The subtypes of STRATEGY_MAP, and "factory" for a direct caller of IndicatorFactory.
Variants ==
    {"factory", "macd_cross", "ma_cross", "rsi_overbought", "bollinger", "high_low",
     "volume", "fixed", "dynamic"}

\* The frames a case is run on.
FramesFor(variant, self) ==
    CASE variant = "high_low" -> HighLowFrames
      [] variant = "volume" -> VolumeFrames
      [] variant = "factory" ->
            IF \E k \in 1..Len(self.indicators) :
                    self.indicators[k].type = "INDICATOR_VOLUME"
            THEN SurgeFrames ELSE PriceFrames
      [] variant = "bollinger" ->
            {f \in PriceFrames : StdOK(f["close"], self.params.window)}
      [] variant = "dynamic" ->
            {f \in PriceFrames : StdOK(f["close"], self.params.volatility_window)}
      [] OTHER -> PriceFrames

StratInit ==
    /\ st_kind \in Variants
    /\ st_params \in StrategyCases(st_kind)
    /\ st_in \in FramesFor(st_kind, st_params)
    /\ st_out = EmptyFrame
    /\ st_pc = "created"

\* IndicatorFactory.calculate_indicators(data, indicators)
CalculateIndicatorsCall ==
    /\ st_kind = "factory"
    /\ st_pc = "created"
    /\ st_out' = CalculateIndicators(st_in, st_params.indicators)
    /\ st_pc' = "calculated"
    /\ UNCHANGED <<st_kind, st_params, st_in>>
    /\ UNCHANGED <<btVars, gridVars, riskVars, indVars, runVars>>

\* IndicatorFactory.get_indicator_signals(data, indicators) on the calculated frame.
GetIndicatorSignalsCall ==
    /\ st_kind = "factory"
    /\ st_pc = "calculated"
    /\ st_out' = GetIndicatorSignals(st_out, st_params.indicators)
    /\ st_pc' = "signalled"
    /\ UNCHANGED <<st_kind, st_params, st_in>>
    /\ UNCHANGED <<btVars, gridVars, riskVars, indVars, runVars>>

\* The caller's view of a method outcome r: the instance after the call, the
\* returned frame, and the exception (as st_pc) when one left the call.
MethodOutcome(r, done) ==
    /\ st_params' = r.self
    /\ st_out' = IF r.error = "" THEN r.df ELSE st_out
    /\ st_pc' = IF r.error = "" THEN done ELSE r.error

\* strategy.prepare_data(data)
PrepareDataCall ==
    /\ st_kind \notin {"none", "factory"}
    /\ st_pc = "created"
    /\ MethodOutcome(PrepareData(st_kind, st_params, st_in), "prepared")
    /\ UNCHANGED <<st_kind, st_in>>
    /\ UNCHANGED <<btVars, gridVars, riskVars, indVars, runVars>>

\* strategy.generate_signals(data) on the prepared frame.
GenerateSignalsCall ==
    /\ st_kind \notin {"none", "factory"}
    /\ st_pc = "prepared"
    /\ MethodOutcome(GenerateSignals(st_kind, st_params, st_out), "signalled")
    /\ UNCHANGED <<st_kind, st_in>>
    /\ UNCHANGED <<btVars, gridVars, riskVars, indVars, runVars>>

(***************************************************************************)
(* Properties of the indicators                                            *)
(***************************************************************************)
\* C10: macd_cross_signal[i] is +1 iff macd[i] > macd_signal[i] and
\* macd[i-1] <= macd_signal[i-1], -1 iff macd[i] < macd_signal[i] and
\* macd[i-1] >= macd_signal[i-1], and 0 at every other index, index 0 included;
\* the two conditions never hold at the same index.
C10_MacdCross ==
    ind_pc = "signalled" =>
        LET m == df_sig["macd"]
            sg == df_sig["macd_signal"]
            x == df_sig["macd_cross_signal"]
            Up(k) == k > 1 /\ RGt(m[k], sg[k]) /\ RLe(m[k - 1], sg[k - 1])
            Down(k) == k > 1 /\ RLt(m[k], sg[k]) /\ RGe(m[k - 1], sg[k - 1])
        IN  /\ Len(x) = Len(df_in["close"])
            /\ \A k \in 1..Len(x) :
                  /\ x[k] = 1 <=> Up(k)
                  /\ x[k] = -1 <=> Down(k)
                  /\ x[k] \in {-1, 0, 1}
                  /\ ~(Up(k) /\ Down(k))
            /\ (Len(x) > 0 => x[1] = 0)

\* C10 witness: a series whose cross column holds both a golden and a death cross.
C10_Witness ==
    /\ ind_pc = "signalled"
    /\ \E j, k \in 1..Len(df_sig["macd_cross_signal"]) :
          /\ df_sig["macd_cross_signal"][j] = 1
          /\ df_sig["macd_cross_signal"][k] = -1
          /\ j < k

\* C22: calculate and get_signal leave the caller's input series unchanged (same
\* columns, same values after the call) and return a new series, also when
\* get_signal is called directly on a series that already holds the indicator's
\* columns.  Stated for the MACD indicator: the input of calculate and of
\* get_signal on raw bars is df_in, the input of get_signal on calculated bars
\* is df_calc.
C22_InputSeriesUnchanged ==
    [][/\ (MacdCalculateCall \/ MacdGetSignalRaw => df_in' = df_in)
       /\ (MacdGetSignalCalculated =>
              /\ DOMAIN df_calc' = DOMAIN df_calc
              /\ df_calc' = df_calc)]_vars

(***************************************************************************)
(* Properties of the signal pipeline                                        *)
(***************************************************************************)
\* The configuration list of the caller holds a type IndicatorFactory does not know.
HasUnknownKind ==
    \E j \in 1..Len(st_params.indicators) :
        CreateIndicatorRaises(st_params.indicators[j].type)

\* C19: calculate_indicators, given a configuration list that contains an unknown
\* indicator kind, reports a configuration error before any indicator is computed
\* and never returns a partially augmented series: once the call is over the
\* caller holds an error and no frame with a column the input did not have.
C19_UnknownKindIsRejected ==
    (st_kind = "factory" /\ st_pc # "created" /\ HasUnknownKind) =>
        /\ st_pc = "ValueError"
        /\ DOMAIN st_out \subseteq DOMAIN st_in

\* The configuration of the level-based signal the case computes, if any.
LevelSignalTypes ==
    {"level", "mean_reversion", "surge"}

HasLevelSignal ==
    /\ st_kind # "none"
    /\ \E j \in 1..Len(st_params.indicators) :
          /\ ~CreateIndicatorRaises(st_params.indicators[j].type)
          /\ st_params.indicators[j].signal_params.signal_type \in LevelSignalTypes

LevelConfig ==
    LET j == CHOOSE j \in 1..Len(st_params.indicators) :
                /\ ~CreateIndicatorRaises(st_params.indicators[j].type)
                /\ st_params.indicators[j].signal_params.signal_type \in LevelSignalTypes
    IN  st_params.indicators[j]

\* The column the level-based signal of a configuration is written to.
LevelSignalColumn(c) ==
    CASE c.type = "INDICATOR_RSI" -> ColumnName("rsi", c.params.window) \o "_level_signal"
      [] c.type = "INDICATOR_BOLLINGER" -> "bollinger_mean_reversion_signal"
      [] c.type = "INDICATOR_VOLUME" -> "volume_surge_signal"

\* The threshold condition of the signal s (1 or -1) of configuration c at bar k
\* of frame df: the indicator or price lies beyond the threshold that s reports.
ThresholdCondition(c, df, s, k) ==
    CASE c.type = "INDICATOR_RSI" ->
            IF s = 1
            THEN FGt(df[ColumnName("rsi", c.params.window)][k], c.signal_params.oversold)
            ELSE FLt(df[ColumnName("rsi", c.params.window)][k], c.signal_params.overbought)
      [] c.type = "INDICATOR_BOLLINGER" ->
            IF s = 1
            THEN FLe(df["close"][k], df["bollinger_lower"][k])
            ELSE FGe(df["close"][k], df["bollinger_upper"][k])
      [] c.type = "INDICATOR_VOLUME" ->
            /\ FGt(df["volume_ratio"][k], c.signal_params.volume_surge)
            /\ IF s = 1 THEN RGt(df["close"][k], df["open"][k])
                        ELSE RLt(df["close"][k], df["open"][k])

\* C11: a level-based signal (RSI level, Bollinger mean-reversion, volume surge)
\* is nonzero at bar i only if its threshold condition changed between bar i-1
\* and bar i: the condition holds at bar i and did not hold at bar i-1, so no
\* further signal of the same sign is emitted while the condition keeps holding.
C11_LevelSignalsFireOnTransition ==
    (HasLevelSignal /\ st_pc = "signalled") =>
        LET c == LevelConfig
            sig == st_out[LevelSignalColumn(c)]
        IN  \A k \in 1..Len(sig) :
                sig[k] # 0 =>
                    /\ k > 1
                    /\ ThresholdCondition(c, st_out, sig[k], k)
                    /\ ~ThresholdCondition(c, st_out, sig[k], k - 1)

\* The indicator column an edge-detected signal of configuration c is derived
\* from, and the column the signal is written to.
EdgeIndicatorColumn(c) ==
    CASE c.type = "INDICATOR_MA" -> ColumnName("ma", c.params.window)
      [] c.type = "INDICATOR_EMA" -> ColumnName("ema", c.params.window)
      [] c.type = "INDICATOR_RSI" -> ColumnName("rsi", c.params.window)

EdgeSignalColumn(c) ==
    CASE c.type = "INDICATOR_MA" -> "ma_signal"
      [] c.type = "INDICATOR_EMA" -> "ema_signal"
      [] c.type = "INDICATOR_RSI" -> ColumnName("rsi", c.params.window) \o "_level_signal"

\* Bar k lies in the warm-up window of the indicator column: its value, or the
\* previous-bar value the edge detection needs, is undefined.
InWarmUp(ind, k) ==
    \/ k = 1
    \/ ~IsNum(ind[k])
    \/ ~IsNum(ind[k - 1])

\* C12: at every bar inside the warm-up window of a moving average or of the RSI
\* the derived signal column holds 'no value', not 0 (Hold): none of -1, 0, 1
\* appears at a bar where the signal was not computable.
C12_WarmUpHoldsNoValue ==
    (st_kind # "none" /\ st_pc = "signalled") =>
        \A j \in 1..Len(st_params.indicators) :
            LET c == st_params.indicators[j]
            IN  (/\ c.type \in {"INDICATOR_MA", "INDICATOR_EMA", "INDICATOR_RSI"}
                 /\ HasColumn(st_out, EdgeSignalColumn(c))) =>
                    \A k \in 1..FrameLen(st_out) :
                        InWarmUp(st_out[EdgeIndicatorColumn(c)], k) =>
                            st_out[EdgeSignalColumn(c)][k] \notin {-1, 0, 1}

\* The variants registered in STRATEGY_MAP.
StrategyVariants ==
    Variants \ {"factory"}

\* prepare_data and generate_signals are both over, or one of them raised.
PipelineOver ==
    st_pc \notin {"idle", "created", "prepared", "calculated"}

\* C13: for every registered strategy variant, prepare_data followed by
\* generate_signals on a non-empty bar series completes without error and returns
\* a frame with a column `signal` that holds a value in {-1, 0, 1} for every bar.
C13_EveryVariantYieldsSignal ==
    (st_kind \in StrategyVariants /\ FrameLen(st_in) > 0) =>
        /\ st_pc \in {"created", "prepared", "signalled"}
        /\ st_pc = "signalled" =>
              /\ HasColumn(st_out, "signal")
              /\ Len(st_out["signal"]) = FrameLen(st_in)
              /\ \A k \in 1..FrameLen(st_in) : st_out["signal"][k] \in {-1, 0, 1}

\* The name of the moving-average class MACrossStrategy.params selects.
MaName(self) ==
    IF self.params.ma_type = "INDICATOR_MA" THEN "ma" ELSE "ema"

StrictlyRising(x) ==
    \A k \in 2..Len(x) : RLt(x[k - 1], x[k])

\* C14: MACrossStrategy: prepare_data followed by generate_signals succeeds and
\* signal[i] is +1 iff the fast average is above the slow one at bar i and was not
\* at bar i-1, -1 on the mirror condition and 0 otherwise; on a strictly rising
\* close series of two or more bars the EMA variant emits exactly one +1 and no -1.
C14_MACrossSignals ==
    (st_kind = "ma_cross" /\ PipelineOver) =>
        /\ st_pc = "signalled"
        /\ LET fast == st_out[ColumnName(MaName(st_params), st_params.params.fast_period)]
               slow == st_out[ColumnName(MaName(st_params), st_params.params.slow_period)]
               sig == st_out["signal"]
           IN  /\ sig = CrossColumn(fast, slow)
               /\ (/\ MaName(st_params) = "ema"
                   /\ Len(sig) >= 2
                   /\ StrictlyRising(st_out["close"])) =>
                      /\ Cardinality({k \in 1..Len(sig) : sig[k] = 1}) = 1
                      /\ \A k \in 1..Len(sig) : sig[k] # -1

\* The average loss over the window ending at bar k (1-based) of a close column.
AvgLoss(cl, w) ==
    RollingMean(LossOf(Diff(cl)), w)

\* C24: at every bar at or after RSI's warm-up window (bar index >= window) the
\* RSI value is defined and lies in [0, 100], and whenever the average loss over
\* the window is 0, a window of constant prices included, the value is exactly
\* 100 and never an undefined one.
C24_RsiDefinedAndBounded ==
    \A w \in 1..MaxSigBars :
        HasColumn(st_out, ColumnName("rsi", w)) =>
            \A k \in (w + 1)..FrameLen(st_out) :
                LET rsi == st_out[ColumnName("rsi", w)][k]
                IN  /\ IsNum(rsi)
                    /\ RGe(rsi, Zero)
                    /\ RLe(rsi, R(100))
                    /\ (AvgLoss(st_out["close"], w)[k] = Zero => rsi = R(100))

\* close[j] exceeds the threshold-adjusted highest high of the lookback bars that
\* end at bar j-1 (bars are 1-based here); no such window before bar lookback+1.
BreaksHigh(df, j, lookback, threshold) ==
    /\ j - lookback >= 1
    /\ \A m \in (j - lookback)..(j - 1) :
          RGt(df["close"][j], RMul(df["high"][m], RAdd(One, threshold)))

\* close[j] is below the threshold-adjusted lowest low of those bars.
BreaksLow(df, j, lookback, threshold) ==
    /\ j - lookback >= 1
    /\ \A m \in (j - lookback)..(j - 1) :
          RLt(df["close"][j], RMul(df["low"][m], RSub(One, threshold)))

\* C25: HighLowBreakoutStrategy with confirmation_days = N > 1: signal[i] = +1 iff
\* close[j] exceeds the threshold-adjusted rolling high of bar j-1 for every j in
\* i-N+1..i, signal[i] = -1 iff close[j] is below the threshold-adjusted rolling
\* low of bar j-1 for every such j; a shorter run of breakout closes gives no
\* nonzero signal and no bar index below N-1 + lookback_period gives one.
C25_ConfirmedBreakout ==
    (st_kind = "high_low" /\ st_pc = "signalled"
        /\ st_params.params.confirmation_days > 1) =>
        LET N == st_params.params.confirmation_days
            lookback == st_params.params.lookback_period
            threshold == st_params.params.breakout_threshold
        IN  /\ HasColumn(st_out, "signal")
            /\ Len(st_out["signal"]) = Len(st_in["close"])
            /\ \A k \in 1..Len(st_in["close"]) :
                  /\ st_out["signal"][k] \in {-1, 0, 1}
                  /\ st_out["signal"][k] = 1 <=>
                        \A j \in (k - N + 1)..k :
                            j >= 1 /\ BreaksHigh(st_in, j, lookback, threshold)
                  /\ st_out["signal"][k] = -1 <=>
                        \A j \in (k - N + 1)..k :
                            j >= 1 /\ BreaksLow(st_in, j, lookback, threshold)
                  /\ (k - 1 < N - 1 + lookback => st_out["signal"][k] = 0)

\* C25 witness: with two confirmation days a +1 at the first bar that can carry
\* one (index N-1 + lookback) and a bar whose single breakout close gave 0.
C25_Witness ==
    /\ st_kind = "high_low"
    /\ st_pc = "signalled"
    /\ st_params.params.confirmation_days = 2
    /\ \E k \in 1..Len(st_in["close"]) :
          /\ k - 1 = 1 + st_params.params.lookback_period
          /\ st_out["signal"][k] = 1
    /\ \E k \in 1..Len(st_in["close"]) :
          /\ st_out["upward_breakout"][k]
          /\ st_out["signal"][k] = 0

\* The signal pipeline is not running.
StratIdle ==
    /\ st_kind = "none"
    /\ st_params = <<>>
    /\ st_in = EmptyFrame
    /\ st_out = EmptyFrame
    /\ st_pc = "idle"

InitMacd ==
    /\ IndInit
    /\ BacktestIdle
    /\ RiskInit
    /\ RunInit
    /\ StratIdle

NextMacd ==
    \/ MacdCalculateCall
    \/ MacdGetSignalRaw
    \/ MacdGetSignalCalculated

\* The MACD indicator applied to every bounded close series.
SpecMacd ==
    InitMacd /\ [][NextMacd]_vars

InitBacktest ==
    /\ BaseInit \/ GridInit \/ DynInit
    /\ RiskInit
    /\ IndIdle
    /\ RunInit
    /\ StratIdle

NextBacktest ==
    \/ BaseStart
    \/ BaseBar
    \/ BaseFinish
    \/ GridConstruct
    \/ GridStart
    \/ GridBar
    \/ GridFinish
    \/ DynConstruct
    \/ DynStart
    \/ BacktestAgain

\* The backtest simulators run on every bounded input.
SpecBacktest ==
    InitBacktest /\ [][NextBacktest]_vars

InitRisk ==
    /\ RiskInit
    /\ BacktestIdle
    /\ IndIdle
    /\ RunInit
    /\ StratIdle

NextRisk ==
    \/ MakeDecisionBegin
    \/ MakeDecisionSymbol
    \/ MakeDecisionReturn
    \/ ExecuteDecisions
    \/ PlaceOrderDirect
    \/ SetRiskParams

\* The live decision path: decision batches, their execution, direct orders.
SpecRisk ==
    InitRisk /\ [][NextRisk]_vars

NextConcurrent ==
    \/ MakeDecisionBegin
    \/ MakeDecisionSymbol
    \/ MakeDecisionReturn
    \/ PlaceOrderInterleaved

\* Decision batches with orders of other requests placed between two symbols.
SpecConcurrent ==
    InitRisk /\ [][NextConcurrent]_vars

InitStrategy ==
    /\ StratInit
    /\ BacktestIdle
    /\ RiskInit
    /\ IndIdle
    /\ RunInit

NextStrategy ==
    \/ CalculateIndicatorsCall
    \/ GetIndicatorSignalsCall
    \/ PrepareDataCall
    \/ GenerateSignalsCall

\* Every strategy variant and indicator configuration applied to every bounded frame.
SpecStrategy ==
    InitStrategy /\ [][NextStrategy]_vars

====
